---- MODULE Spec2Model ----
(***************************************************************************)
(* Model of github.com/itsatony/go-version: the load-enrich-validate       *)
(* pipeline (version.loader.go, the validators, internal/semver) and the   *)
(* singleton lifecycle (Initialize / Get / MustGet / New / IsInitialized / *)
(* Reset) built on atomic.Value + sync.Once.                               *)
(*                                                                         *)
(* Go strings that the code inspects character by character (version       *)
(* strings, commit hashes, tags) are sequences of one-character strings;   *)
(* strings that are only copied or compared whole are TLA+ strings.        *)
(* Go maps are functions; a nil map and an empty map are both the empty    *)
(* function (the code only ranges over them and looks keys up).            *)
(***************************************************************************)
EXTENDS Integers, Sequences, FiniteSets, TLC

(***************************************************************************)
(* Bounds of the model.                                                    *)
(***************************************************************************)
MaxCalls == 3

\* The goroutines calling into the package.
Threads == {1, 2}

(***************************************************************************)
(* Package constants (version.constants.go).                               *)
(***************************************************************************)
ManifestVersion == "1.0"
ManifestFilenameYAML == "versions.yaml"
DefaultGitCommit == <<"d", "e", "v">>
DefaultGitTreeState == "clean"
DefaultBuildTime == "unknown"
DefaultBuildUser == ""
DefaultProjectName == "unknown"
DefaultProjectVersion == "0.0.0-dev"
GitTreeStateDirty == "dirty"
VCSKeyRevision == "vcs.revision"
VCSKeyTime == "vcs.time"
VCSKeyModified == "vcs.modified"
VCSValueTrue == "true"

(***************************************************************************)
(* Errors.  An error value is a record: its category and message, the      *)
(* arguments formatted into it (each a sequence of strings), the wrapped   *)
(* cause (<<>> or <<err>>) and                                             *)
(* whether a "Hint:" line is appended.  NoError is Go's nil error.         *)
(***************************************************************************)
NoError == [category |-> "", msg |-> "nil", args |-> <<>>, cause |-> <<>>, hint |-> FALSE]

NewError(category, msg, args, cause, hint) ==
    [category |-> category, msg |-> msg, args |-> args, cause |-> cause, hint |-> hint]

\* os.ErrNotExist, and the *PathError os.ReadFile returns for a missing file
\* (os.IsNotExist is true of both) or for a file it cannot read.
OsErrNotExist == NewError("os", "file does not exist", <<>>, <<>>, FALSE)
OsErrPermission == NewError("os", "permission denied", <<>>, <<>>, FALSE)
OsIsNotExist(err) == err = OsErrNotExist

ErrNotInitialized == NewError("CORE", "version not initialized", <<>>, <<>>, FALSE)

ErrInitializeMultiple ==
    NewError("", "version.Initialize() was already called (singleton enforces single initialization)",
             <<>>, <<>>, TRUE)

wrapError(err, category, msg) ==
    IF err = NoError THEN NoError ELSE NewError(category, msg, <<>>, <<err>>, FALSE)

newCategoryErrorWithHint(category, msg) == NewError(category, msg, <<>>, <<>>, TRUE)

wrapErrorWithHint(err, category, msg) ==
    IF err = NoError THEN NoError ELSE NewError(category, msg, <<>>, <<err>>, TRUE)

(***************************************************************************)
(* internal/semver.                                                        *)
(***************************************************************************)
Digits == {"0", "1", "2", "3", "4", "5", "6", "7", "8", "9"}

DigitValue(c) ==
    CASE c = "0" -> 0 [] c = "1" -> 1 [] c = "2" -> 2 [] c = "3" -> 3 [] c = "4" -> 4
      [] c = "5" -> 5 [] c = "6" -> 6 [] c = "7" -> 7 [] c = "8" -> 8 [] c = "9" -> 9

\* Byte values of the characters the model's strings use (Go compares strings
\* bytewise).
ByteOf(c) ==
    CASE c \in Digits -> 48 + DigitValue(c)
      [] c = "\n" -> 10 [] c = " " -> 32 [] c = "+" -> 43 [] c = "-" -> 45 [] c = "." -> 46
      [] c = "A" -> 65 [] c = "F" -> 70 [] c = "a" -> 97 [] c = "b" -> 98 [] c = "c" -> 99
      [] c = "d" -> 100 [] c = "e" -> 101 [] c = "f" -> 102 [] c = "g" -> 103
      [] c = "h" -> 104 [] c = "i" -> 105
      [] c = "l" -> 108 [] c = "p" -> 112 [] c = "r" -> 114 [] c = "t" -> 116
      [] c = "u" -> 117 [] c = "v" -> 118 [] c = "x" -> 120 [] c = "z" -> 122

\* An order that puts the shorter string first.
ShorterFirst(s, t) == Len(s) < Len(t)

\* Go's s < t on strings.
RECURSIVE StrLess(_, _)
StrLess(s, t) ==
    IF Len(t) = 0 THEN FALSE
    ELSE IF Len(s) = 0 THEN TRUE
    ELSE IF s[1] # t[1] THEN ByteOf(s[1]) < ByteOf(t[1])
    ELSE StrLess(Tail(s), Tail(t))

\* strings.IndexByte, 1-based; 0 when c does not occur.
IndexByte(s, c) ==
    IF \E i \in 1..Len(s) : s[i] = c
    THEN CHOOSE i \in 1..Len(s) : s[i] = c /\ \A j \in 1..(i - 1) : s[j] # c
    ELSE 0

\* A split at the last c instead of the first.
SplitAtLast(s, c) ==
    IF \A i \in 1..Len(s) : s[i] # c THEN <<s>>
    ELSE LET i == CHOOSE k \in 1..Len(s) : s[k] = c /\ \A j \in (k + 1)..Len(s) : s[j] # c
         IN <<SubSeq(s, 1, i - 1), SubSeq(s, i + 1, Len(s))>>

\* strings.SplitN(s, c, 2)
SplitN2(s, c) ==
    LET i == IndexByte(s, c)
    IN IF i = 0 THEN <<s>> ELSE <<SubSeq(s, 1, i - 1), SubSeq(s, i + 1, Len(s))>>

\* strings.Split(s, c)
RECURSIVE Split(_, _)
Split(s, c) ==
    LET i == IndexByte(s, c)
    IN IF i = 0 THEN <<s>>
       ELSE <<SubSeq(s, 1, i - 1)>> \o Split(SubSeq(s, i + 1, Len(s)), c)

RECURSIVE DigitsValue(_)
DigitsValue(s) ==
    IF Len(s) = 0 THEN 0
    ELSE 10 * DigitsValue(SubSeq(s, 1, Len(s) - 1)) + DigitValue(s[Len(s)])

\* The digits of the largest int, 1<<63 - 1 (int has 64 bits).
MaxIntDigits ==
    <<"9", "2", "2", "3", "3", "7", "2", "0", "3", "6", "8", "5", "4", "7", "7", "5", "8", "0", "7">>

\* s without its leading zeros.
TrimZeros(s) ==
    IF \A i \in 1..Len(s) : s[i] = "0" THEN <<>>
    ELSE SubSeq(s, CHOOSE i \in 1..Len(s) : s[i] # "0" /\ \A j \in 1..(i - 1) : s[j] = "0",
                Len(s))

\* The number with the digits d, which has no leading zero, is at most the
\* largest int.
AtMostMaxInt(d) ==
    \/ Len(d) < Len(MaxIntDigits)
    \/ /\ Len(d) = Len(MaxIntDigits)
       /\ ~\E i \in 1..Len(d) : /\ DigitValue(d[i]) > DigitValue(MaxIntDigits[i])
                                 /\ \A j \in 1..(i - 1) : d[j] = MaxIntDigits[j]

\* The decimal number s is at most the largest int: it is short (Atoi's
\* fast path), or not above the largest int once its leading zeros are
\* dropped.
FitsInt(s) == Len(s) < Len(MaxIntDigits) \/ AtMostMaxInt(TrimZeros(s))

\* strconv.Atoi: an optional sign, then one or more decimal digits; a
\* value out of the range of int is an error (ErrRange).  The strings the
\* model parses are either short or out of range.
Atoi(s) ==
    LET signed == Len(s) > 0 /\ s[1] \in {"+", "-"}
        body == IF signed THEN Tail(s) ELSE s
    IN IF Len(body) = 0 \/ \E i \in 1..Len(body) : body[i] \notin Digits
       THEN [ok |-> FALSE, n |-> 0]
       ELSE IF ~FitsInt(body)
       THEN [ok |-> FALSE, n |-> 0]
       ELSE [ok |-> TRUE,
             n |-> IF signed /\ s[1] = "-" THEN 0 - DigitsValue(body) ELSE DigitsValue(body)]

\* A parser that does not know the v prefix.
TrimPrefixNone(s) == s

\* strings.TrimPrefix(s, "v")
TrimPrefixV(s) == IF Len(s) > 0 /\ s[1] = "v" THEN Tail(s) ELSE s

NoVersion == [ok |-> FALSE, Major |-> 0, Minor |-> 0, Patch |-> 0, Prerelease |-> <<>>, Build |-> <<>>]

\* semver.Parse
Parse(str) ==
    LET s == TrimPrefixV(str)
        parts == SplitN2(s, "+")
        versionPart == parts[1]
        buildPart == IF Len(parts) > 1 THEN parts[2] ELSE <<>>
        parts2 == SplitN2(versionPart, "-")
        corePart == parts2[1]
        prereleasePart == IF Len(parts2) > 1 THEN parts2[2] ELSE <<>>
        coreParts == Split(corePart, ".")
        major == Atoi(coreParts[1])
        minor == IF Len(coreParts) > 1 THEN Atoi(coreParts[2]) ELSE [ok |-> TRUE, n |-> 0]
        patch == IF Len(coreParts) > 2 THEN Atoi(coreParts[3]) ELSE [ok |-> TRUE, n |-> 0]
    IN IF s = <<>> THEN NoVersion
       ELSE IF Len(coreParts) < 1 \/ Len(coreParts) > 3 THEN NoVersion
       ELSE IF ~major.ok THEN NoVersion
       ELSE IF ~minor.ok THEN NoVersion
       ELSE IF ~patch.ok THEN NoVersion
       ELSE [ok |-> TRUE, Major |-> major.n, Minor |-> minor.n, Patch |-> patch.n,
             Prerelease |-> prereleasePart, Build |-> buildPart]

\* fmt.Sprintf("%d", n)
RECURSIVE Itoa(_)
Itoa(n) ==
    IF n < 0 THEN <<"-">> \o Itoa(0 - n)
    ELSE IF n < 10 THEN <<CHOOSE c \in Digits : DigitValue(c) = n>>
    ELSE Itoa(n \div 10) \o <<CHOOSE c \in Digits : DigitValue(c) = n % 10>>

\* A String that leaves the build metadata out.
VersionStringNoBuild(v) ==
    Itoa(v.Major) \o <<".">> \o Itoa(v.Minor) \o <<".">> \o Itoa(v.Patch)
        \o (IF v.Prerelease # <<>> THEN <<"-">> \o v.Prerelease ELSE <<>>)

\* (*Version).String
VersionString(v) ==
    Itoa(v.Major) \o <<".">> \o Itoa(v.Minor) \o <<".">> \o Itoa(v.Patch)
        \o (IF v.Prerelease # <<>> THEN <<"-">> \o v.Prerelease ELSE <<>>)
        \o (IF v.Build # <<>> THEN <<"+">> \o v.Build ELSE <<>>)

\* (*Version).Compare
Compare(v, other) ==
    IF v.Major # other.Major THEN (IF v.Major < other.Major THEN -1 ELSE 1)
    ELSE IF v.Minor # other.Minor THEN (IF v.Minor < other.Minor THEN -1 ELSE 1)
    ELSE IF v.Patch # other.Patch THEN (IF v.Patch < other.Patch THEN -1 ELSE 1)
    ELSE IF v.Prerelease = <<>> /\ other.Prerelease # <<>> THEN 1
    ELSE IF v.Prerelease # <<>> /\ other.Prerelease = <<>> THEN -1
    ELSE IF v.Prerelease # other.Prerelease
         THEN (IF StrLess(v.Prerelease, other.Prerelease) THEN -1 ELSE 1)
    ELSE 0

\* A comparison that also counts equal versions as older.
LessOrEqual(v, other) == Compare(v, other) <= 0

LessThan(v, other) == Compare(v, other) < 0

GreaterThan(v, other) == Compare(v, other) > 0

\* An equality of the structs, build metadata included.
EqualStructs(v, other) == v = other

Equal(v, other) == Compare(v, other) = 0

GreaterThanOrEqual(v, other) == Compare(v, other) >= 0

LessThanOrEqual(v, other) == Compare(v, other) <= 0

(***************************************************************************)
(* Manifest bytes.  A byte slice is a record: its length, whether it is    *)
(* well-formed YAML, and its top-level mapping (a function from the keys   *)
(* as written in the document to their values).  yaml.Unmarshal fills a    *)
(* Manifest field from the key its yaml tag names and leaves it at its     *)
(* zero value when that key is absent; unknown keys are ignored.           *)
(***************************************************************************)
NilMap == <<>>

\* The values of a Custom section: a scalar, or a reference to a structured
\* value.
Scalar(s) == [kind |-> "scalar", v |-> s, ref |-> 0]
Ref(n) == [kind |-> "map", v |-> "", ref |-> n]

NoBytes == [len |-> 0, yamlOK |-> TRUE, top |-> <<>>]

YAMLDoc(top) == [len |-> 1, yamlOK |-> TRUE, top |-> top]

InvalidYAML == [len |-> 1, yamlOK |-> FALSE, top |-> <<>>]

Field(top, key, zero) == IF key \in DOMAIN top THEN top[key] ELSE zero

\* yaml.Unmarshal(data, &manifest) under the struct tags of Manifest and
\* ProjectManifest.
Unmarshal(data) ==
    LET project == Field(data.top, "project", <<>>)
    IN [ManifestVersion |-> Field(data.top, "manifest_version", ""),
        Project |-> [Name |-> Field(project, "name", ""),
                     Version |-> Field(project, "version", "")],
        Schemas |-> Field(data.top, "Schemas", NilMap),
        APIs |-> Field(data.top, "APIs", NilMap),
        Components |-> Field(data.top, "Components", NilMap),
        Custom |-> Field(data.top, "Custom", NilMap)]

NoManifest ==
    [ManifestVersion |-> "", Project |-> [Name |-> "", Version |-> ""],
     Schemas |-> NilMap, APIs |-> NilMap, Components |-> NilMap, Custom |-> NilMap]

\* parseManifest
parseManifest(data) ==
    LET m == Unmarshal(data)
        manifest == IF m.ManifestVersion = ""
                    THEN [m EXCEPT !.ManifestVersion = ManifestVersion] ELSE m
    IN IF ~data.yamlOK
       THEN [manifest |-> NoManifest,
             err |-> wrapError(NewError("yaml", "unmarshal error", <<>>, <<>>, FALSE),
                               "manifest", "failed to parse YAML")]
       ELSE IF manifest.Project.Name = ""
       THEN [manifest |-> NoManifest,
             err |-> newCategoryErrorWithHint("manifest", "project name is required in manifest")]
       ELSE IF manifest.Project.Version = ""
       THEN [manifest |-> NoManifest,
             err |-> newCategoryErrorWithHint("manifest", "project version is required in manifest")]
       ELSE [manifest |-> manifest, err |-> NoError]

\* os.ReadFile(path) against the file system fs: a function from the paths
\* that exist to [readable, data].
ReadFile(fs, path) ==
    IF path \notin DOMAIN fs THEN [data |-> NoBytes, err |-> OsErrNotExist]
    ELSE IF ~fs[path].readable THEN [data |-> NoBytes, err |-> OsErrPermission]
    ELSE [data |-> fs[path].data, err |-> NoError]

\* A loader that tries the file before the embedded bytes.
loadManifestFileFirst(options, fs) ==
    IF options.manifestPath # "" /\ ReadFile(fs, options.manifestPath).err = NoError
    THEN parseManifest(ReadFile(fs, options.manifestPath).data)
    ELSE IF options.manifestEmbed.len > 0 THEN parseManifest(options.manifestEmbed)
    ELSE [manifest |-> NoManifest, err |-> OsErrNotExist]

\* loadManifest
loadManifest(options, fs) ==
    IF options.manifestEmbed.len > 0 THEN parseManifest(options.manifestEmbed)
    ELSE IF options.manifestPath # ""
    THEN LET r == ReadFile(fs, options.manifestPath)
         IN IF r.err # NoError THEN [manifest |-> NoManifest, err |-> r.err]
            ELSE parseManifest(r.data)
    ELSE [manifest |-> NoManifest, err |-> OsErrNotExist]

\* defaultManifest
defaultManifest ==
    [ManifestVersion |-> ManifestVersion,
     Project |-> [Name |-> DefaultProjectName, Version |-> DefaultProjectVersion],
     Schemas |-> NilMap, APIs |-> NilMap, Components |-> NilMap, Custom |-> NilMap]

\* manifestToInfo; goVersion is runtime.Version().
manifestToInfo(m, goVersion) ==
    [Project |-> [Name |-> m.Project.Name, Version |-> m.Project.Version],
     Git |-> [Commit |-> DefaultGitCommit, Tag |-> <<>>,
              TreeState |-> DefaultGitTreeState, CommitTime |-> ""],
     Build |-> [Time |-> DefaultBuildTime, User |-> "", GoVersion |-> goVersion],
     schemas |-> m.Schemas,
     apis |-> m.APIs,
     components |-> m.Components,
     custom |-> m.Custom,
     loadedAt |-> 0]

(***************************************************************************)
(* Enrichment.  env is the process environment: the -ldflags variables,    *)
(* debug.ReadBuildInfo, exec.LookPath("git") and the two git commands.     *)
(***************************************************************************)
\* applyLdflagsGitInfo
applyLdflagsGitInfo(info, env) ==
    LET i1 == IF env.GitCommit # DefaultGitCommit
              THEN [info EXCEPT !.Git.Commit = env.GitCommit] ELSE info
        i2 == IF env.GitTag # <<>> THEN [i1 EXCEPT !.Git.Tag = env.GitTag] ELSE i1
    IN IF env.GitTreeState # DefaultGitTreeState
       THEN [i2 EXCEPT !.Git.TreeState = env.GitTreeState] ELSE i2

\* One iteration of the loop of applyBuildInfoGitData over buildInfo.Settings.
applyBuildSetting(info, setting) ==
    CASE setting.Key = VCSKeyRevision ->
           IF info.Git.Commit = DefaultGitCommit
           THEN [info EXCEPT !.Git.Commit = setting.Value] ELSE info
      [] setting.Key = VCSKeyTime ->
           IF info.Git.CommitTime = ""
           THEN [info EXCEPT !.Git.CommitTime = setting.Value] ELSE info
      [] setting.Key = VCSKeyModified ->
           IF setting.Value = VCSValueTrue
           THEN [info EXCEPT !.Git.TreeState = GitTreeStateDirty] ELSE info
      [] OTHER -> info

RECURSIVE applySettings(_, _)
applySettings(info, settings) ==
    IF settings = <<>> THEN info
    ELSE applySettings(applyBuildSetting(info, Head(settings)), Tail(settings))

\* applyBuildInfoGitData
applyBuildInfoGitData(info, env) ==
    IF ~env.buildInfoOK THEN info ELSE applySettings(info, env.buildSettings)

SafeLocations == {"/usr/bin/git", "/usr/local/bin/git", "/opt/homebrew/bin/git"}

\* A lookup that takes git from wherever the PATH has it.
getGitBinaryAnywhere(env) == IF ~env.lookPath.ok THEN "" ELSE env.lookPath.path

\* A lookup that validates the location on Linux only.
getGitBinaryLinuxOnly(env) ==
    IF ~env.lookPath.ok THEN ""
    ELSE IF env.goos = "linux" /\ env.lookPath.path \notin SafeLocations THEN ""
    ELSE env.lookPath.path

\* getGitBinary: "" when git is not found or not in a safe location.
getGitBinary(env) ==
    IF ~env.lookPath.ok THEN ""
    ELSE IF env.goos # "windows" /\ env.lookPath.path \notin SafeLocations THEN ""
    ELSE env.lookPath.path

HexChars == Digits \cup {"a", "b", "c", "d", "e", "f", "A", "B", "C", "D", "E", "F"}

MinCommitHashLen == 7
MaxCommitHashLen == 40

\* A check of the characters that forgets the length.
isValidCommitHashAnyLength(hash) == \A i \in 1..Len(hash) : hash[i] \in HexChars

\* isValidCommitHash
isValidCommitHash(hash) ==
    IF Len(hash) < MinCommitHashLen \/ Len(hash) > MaxCommitHashLen THEN FALSE
    ELSE \A i \in 1..Len(hash) : hash[i] \in HexChars

WhiteSpace == {" ", "\n", "\t", "\r"}

\* strings.TrimSpace
RECURSIVE TrimSpace(_)
TrimSpace(s) ==
    IF Len(s) = 0 THEN s
    ELSE IF s[1] \in WhiteSpace THEN TrimSpace(Tail(s))
    ELSE IF s[Len(s)] \in WhiteSpace THEN TrimSpace(SubSeq(s, 1, Len(s) - 1))
    ELSE s

\* getGitCommit: cmd.Output() fails on a timeout or a non-zero exit.
getGitCommit(env) ==
    IF getGitBinary(env) = "" THEN <<>>
    ELSE IF ~env.revParse.ok THEN <<>>
    ELSE IF ~isValidCommitHash(TrimSpace(env.revParse.out)) THEN <<>>
    ELSE TrimSpace(env.revParse.out)

\* getGitTag
getGitTag(env) ==
    IF getGitBinary(env) = "" THEN <<>>
    ELSE IF ~env.describe.ok THEN <<>>
    ELSE TrimSpace(env.describe.out)

\* A fallback that takes the commit git reports whatever the field holds.
applyGitCommandAlways(info, env) ==
    LET i1 == IF getGitCommit(env) # <<>>
              THEN [info EXCEPT !.Git.Commit = getGitCommit(env)] ELSE info
    IN IF i1.Git.Tag = <<>> /\ getGitTag(env) # <<>>
       THEN [i1 EXCEPT !.Git.Tag = getGitTag(env)] ELSE i1

\* applyGitCommandFallback
applyGitCommandFallback(info, env) ==
    LET i1 == IF info.Git.Commit = DefaultGitCommit /\ getGitCommit(env) # <<>>
              THEN [info EXCEPT !.Git.Commit = getGitCommit(env)] ELSE info
    IN IF i1.Git.Tag = <<>> /\ getGitTag(env) # <<>>
       THEN [i1 EXCEPT !.Git.Tag = getGitTag(env)] ELSE i1

\* enrichWithGitInfo
enrichWithGitInfo(info, env) ==
    applyGitCommandFallback(applyBuildInfoGitData(applyLdflagsGitInfo(info, env), env), env)

\* A build pass that forgets the injected user.
enrichWithBuildInfoNoUser(info, env) ==
    [info EXCEPT !.Build.Time = env.BuildTime, !.Build.GoVersion = env.goVersion]

\* enrichWithBuildInfo
enrichWithBuildInfo(info, env) ==
    LET i1 == IF env.BuildTime # DefaultBuildTime
              THEN [info EXCEPT !.Build.Time = env.BuildTime] ELSE info
        i2 == IF env.BuildUser # DefaultBuildUser
              THEN [i1 EXCEPT !.Build.User = env.BuildUser] ELSE i1
    IN [i2 EXCEPT !.Build.GoVersion = env.goVersion]

(***************************************************************************)
(* Validators.  A built-in validator is [dimensionType, name, minVersion]; *)
(* a ValidatorFunc is [dimensionType |-> "func", name |-> its behaviour].  *)
(***************************************************************************)
\* A getter that reports every name as found.
GetVersionAlwaysOk(info, dimensionType, name) ==
    LET m == CASE dimensionType = "schema" -> info.schemas
               [] dimensionType = "API" -> info.apis
               [] dimensionType = "component" -> info.components
    IN [v |-> IF name \in DOMAIN m THEN m[name] ELSE <<>>, ok |-> TRUE]

\* (*Info).GetSchemaVersion / GetAPIVersion / GetComponentVersion: the
\* getterFunc of a genericVersionValidator.
GetVersion(info, dimensionType, name) ==
    LET m == CASE dimensionType = "schema" -> info.schemas
               [] dimensionType = "API" -> info.apis
               [] dimensionType = "component" -> info.components
    IN IF name \in DOMAIN m THEN [v |-> m[name], ok |-> TRUE] ELSE [v |-> <<>>, ok |-> FALSE]

\* A validator that parses its minimum before the actual version.
ValidateMinimumFirst(v, info) ==
    LET actual == GetVersion(info, v.dimensionType, v.name)
        actualVer == Parse(actual.v)
        minVer == Parse(v.minVersion)
    IN IF ~actual.ok
       THEN NewError(v.dimensionType, "not found in manifest", << <<v.name>> >>, <<>>, TRUE)
       ELSE IF ~minVer.ok
       THEN NewError("", "invalid minimum version for validator", <<v.minVersion>>, <<>>, FALSE)
       ELSE IF ~actualVer.ok
       THEN NewError(v.dimensionType, "invalid version", <<actual.v, <<v.name>> >>, <<>>, FALSE)
       ELSE NoError

\* (*genericVersionValidator).Validate
Validate(v, info) ==
    LET actual == GetVersion(info, v.dimensionType, v.name)
        actualVer == Parse(actual.v)
        minVer == Parse(v.minVersion)
    IN IF ~actual.ok
       THEN NewError(v.dimensionType, "not found in manifest", << <<v.name>> >>, <<>>, TRUE)
       ELSE IF ~actualVer.ok
       THEN NewError(v.dimensionType, "invalid version", <<actual.v, <<v.name>> >>, <<>>, FALSE)
       ELSE IF ~minVer.ok
       THEN NewError("", "invalid minimum version for validator", <<v.minVersion>>, <<>>, FALSE)
       ELSE IF LessThan(actualVer, minVer)
       THEN NewError(v.dimensionType, "version is less than required minimum",
                     << <<v.name>>, actual.v, v.minVersion >>, <<>>, TRUE)
       ELSE NoError

\* ValidatorFunc.Validate for the caller-supplied functions the model uses:
\* the package documentation's "development version not allowed" and
\* "production builds must have a git tag" checks, and a function that
\* accepts every Info.
ValidateFunc(v, info) ==
    IF v.name = "noDevVersion" /\ info.Project.Version = DefaultProjectVersion
    THEN NewError("custom", "development version not allowed in production", <<>>, <<>>, FALSE)
    ELSE IF /\ v.name = "requireGitTag"
            /\ "environment" \in DOMAIN info.custom
            /\ info.custom["environment"] = Scalar("production")
            /\ info.Git.Tag = <<>>
    THEN NewError("custom", "production builds must have a git tag", <<>>, <<>>, FALSE)
    ELSE NoError

\* Validator.Validate, dispatched on the validator's dynamic type.
ValidatorValidate(v, info) ==
    IF v.dimensionType = "func" THEN ValidateFunc(v, info) ELSE Validate(v, info)

\* The validator loop of loadVersionInfo: the first error, wrapped, or nil.
RECURSIVE runValidators(_, _)
runValidators(validators, info) ==
    IF validators = <<>> THEN NoError
    ELSE IF ValidatorValidate(Head(validators), info) # NoError
    THEN wrapError(ValidatorValidate(Head(validators), info), "validation", "validation failed")
    ELSE runValidators(Tail(validators), info)

(***************************************************************************)
(* Options.                                                                *)
(***************************************************************************)
\* defaultLoadOptions
defaultLoadOptions ==
    [manifestPath |-> ManifestFilenameYAML, manifestEmbed |-> NoBytes,
     includeGit |-> TRUE, includeBuild |-> TRUE, validators |-> <<>>, strictMode |-> FALSE]

WithManifestPath(o, path) == [o EXCEPT !.manifestPath = path]
WithEmbedded(o, data) == [o EXCEPT !.manifestEmbed = data]
WithGitInfo(o) == [o EXCEPT !.includeGit = TRUE]
WithoutGitInfo(o) == [o EXCEPT !.includeGit = FALSE]
WithBuildInfo(o) == [o EXCEPT !.includeBuild = TRUE]
WithoutBuildInfo(o) == [o EXCEPT !.includeBuild = FALSE]
\* An option that replaces the validators passed before it.
WithValidatorsReplace(o, vs) == [o EXCEPT !.validators = vs]

WithValidators(o, vs) == [o EXCEPT !.validators = @ \o vs]
WithStrictMode(o) == [o EXCEPT !.strictMode = TRUE]

NilInfo == [nil |-> TRUE]

\* A loader for which strict mode makes no difference.
manifestErrorLenient(options, err) ==
    IF err = NoError \/ OsIsNotExist(err) THEN NoError
    ELSE wrapErrorWithHint(err, "manifest", "failed to load manifest")

\* A loader that falls back to the defaults on every manifest error when
\* not in strict mode.
manifestErrorDefaults(options, err) ==
    IF err = NoError \/ ~options.strictMode THEN NoError
    ELSE wrapErrorWithHint(err, "manifest", "failed to load manifest")

\* loadVersionInfo, the block under "if err != nil" after loadManifest: the
\* error it returns, or nil when it goes on (with defaultManifest if err is
\* not nil).
manifestError(options, err) ==
    IF err = NoError THEN NoError
    ELSE IF options.strictMode
    THEN (IF OsIsNotExist(err)
          THEN newCategoryErrorWithHint("manifest",
                   "strict mode: manifest file is required but not found")
          ELSE wrapErrorWithHint(err, "manifest", "failed to load manifest"))
    ELSE IF ~OsIsNotExist(err)
    THEN wrapErrorWithHint(err, "manifest", "failed to load manifest")
    ELSE NoError

\* loadVersionInfo, the two enrichment steps.
enrich(options, env, info) ==
    LET i1 == IF options.includeGit THEN enrichWithGitInfo(info, env) ELSE info
    IN IF options.includeBuild THEN enrichWithBuildInfo(i1, env) ELSE i1

\* loadVersionInfo, the validator loop and the return.
validate(options, info) ==
    LET err == runValidators(options.validators, info)
    IN [info |-> IF err # NoError THEN NilInfo ELSE info, err |-> err]

\* loadVersionInfo, after the options have been applied to
\* defaultLoadOptions: [info, err].  now is time.Now().
loadVersionInfo(options, env, now) ==
    LET lm == loadManifest(options, env.fs)
    IN IF manifestError(options, lm.err) # NoError
       THEN [info |-> NilInfo, err |-> manifestError(options, lm.err)]
       ELSE validate(options,
                enrich(options, env,
                    [manifestToInfo(IF lm.err # NoError THEN defaultManifest ELSE lm.manifest,
                                    env.goVersion)
                        EXCEPT !.loadedAt = now]))

(***************************************************************************)
(* The process: its environment, the package-level variables of the        *)
(* singleton, the heap of *Info objects, and the goroutines calling the    *)
(* package's entry points.                                                 *)
(***************************************************************************)
VARIABLES
    env,        \* the process environment (never changes)
    instance,   \* atomic.Value: [stored, ptr]; ptr = 0 is a nil *Info
    initOnce,   \* sync.Once: [done, m]; m is the goroutine holding its mutex, or 0
    initError,  \* the package variable initError
    resetMu,    \* the goroutine holding resetMu, or 0
    heap,       \* the *Info objects allocated so far; a pointer is an index
    pc,         \* where each goroutine is in its call
    call,       \* the call each goroutine is in, or made last
    didRun,     \* Initialize's local didRun
    info,       \* the once body's local info
    ret,        \* what each goroutine's last call returned
    calls,      \* calls made so far
    bodyRuns,   \* executions of the once body since the last Reset
    initBy,     \* the entry point that ran the once body since the last Reset
    epoch,      \* Resets begun so far
    run,        \* one run of loadVersionInfo, step by step
    obj,        \* an *Info in the hands of its callers
    sem,        \* two version strings being parsed, compared and printed
    web         \* the HTTP request each goroutine is serving

vars == <<run, obj, sem, web, env, instance, initOnce, initError, resetMu, heap, pc, call,
          didRun, info, ret, calls, bodyRuns, initBy, epoch>>

(***************************************************************************)
(* The inputs the model draws from.                                        *)
(***************************************************************************)
DocTestApp ==
    YAMLDoc([manifest_version |-> "1.0",
             project |-> [name |-> "test-app", version |-> "1.0.0"],
             Schemas |-> [db |-> <<"4", "7">>]])

DocNewApp ==
    YAMLDoc([manifest_version |-> "1.0",
             project |-> [name |-> "new-app", version |-> "2.0.0"]])

DocNoVersion == YAMLDoc([manifest_version |-> "1.0", project |-> [name |-> "test-app"]])

MinSchema(name, minVersion) == [dimensionType |-> "schema", name |-> name, minVersion |-> minVersion]

\* The option lists passed to Initialize and New, applied to the defaults.
OptTestApp ==
    WithValidators(WithEmbedded(defaultLoadOptions, DocTestApp), <<MinSchema("db", <<"4", "5">>)>>)
OptNewApp == WithEmbedded(defaultLoadOptions, DocNewApp)
OptInvalidYAML == WithEmbedded(defaultLoadOptions, InvalidYAML)
OptNoVersion == WithEmbedded(defaultLoadOptions, DocNoVersion)
OptTooOld ==
    WithValidators(WithEmbedded(defaultLoadOptions, DocTestApp), <<MinSchema("db", <<"5", "0">>)>>)
OptStrictMissing == WithStrictMode(WithManifestPath(defaultLoadOptions, "missing.yaml"))

\* Initialize is called with a good manifest, with another good manifest,
\* with bytes that do not parse, or with a validator the manifest fails.
InitializeOptions == {OptTestApp, OptNewApp, OptInvalidYAML, OptTooOld}

\* New is called with a good manifest or with one that lacks project.version.
NewOptions == {OptNewApp, OptNoVersion}

\* The options Get passes: WithGitInfo(), WithBuildInfo().
GetOptions == WithBuildInfo(WithGitInfo(defaultLoadOptions))

BaseEnv ==
    [testing |-> TRUE,
     fs |-> <<>>,
     GitCommit |-> DefaultGitCommit, GitTag |-> <<>>, GitTreeState |-> DefaultGitTreeState,
     BuildTime |-> DefaultBuildTime, BuildUser |-> DefaultBuildUser,
     buildInfoOK |-> TRUE,
     buildSettings |-> <<[Key |-> VCSKeyModified, Value |-> "true"]>>,
     goVersion |-> "go1.24.6", goos |-> "linux",
     lookPath |-> [ok |-> TRUE, path |-> "/usr/bin/git"],
     revParse |-> [ok |-> TRUE, out |-> <<"a", "b", "c", "1", "2", "3", "4", "\n">>],
     describe |-> [ok |-> FALSE, out |-> <<>>]]

\* The environments a run starts in: a test binary with no versions.yaml or
\* with an unreadable one in the working directory, and a production binary.
Envs ==
    {BaseEnv,
     [BaseEnv EXCEPT !.fs = [x \in {ManifestFilenameYAML} |->
                                [readable |-> FALSE, data |-> NoBytes]]],
     [BaseEnv EXCEPT !.testing = FALSE]}

\* loadVersionInfo on the option lists, environments and clock values of the
\* model.
AllOptions == InitializeOptions \cup NewOptions \cup {GetOptions}

\* The environments the HTTP handlers run in: with git, which supplies a
\* commit, and without.
WebEnvs == {BaseEnv, [BaseEnv EXCEPT !.lookPath = [ok |-> FALSE, path |-> ""]]}

Loads ==
    [options \in AllOptions, e \in Envs \cup WebEnvs, now \in 0..MaxCalls |->
        loadVersionInfo(options, e, now)]

\* No run of the loader is being followed; no *Info is being followed.
NoRun == [pc |-> "none"]
NoObj == [pc |-> "none"]

\* No version strings are being followed; no goroutine serves a request.
NoSem == [pc |-> "none"]
NoRequest ==
    [handler |-> "none", method |-> "", phase |-> "done", status |-> 0, body |-> <<>>,
     headers |-> <<>>, served |-> 0]
NoWeb == [t \in Threads |-> NoRequest]

NoCall == [op |-> "none", options |-> defaultLoadOptions, state |-> "none",
           snap |-> <<>>, seq |-> 0, alone |-> FALSE]

NoRet == [done |-> FALSE, info |-> 0, err |-> NoError, ok |-> FALSE, panicked |-> FALSE,
          didRun |-> FALSE, epoch |-> 0]

FreshOnce == [done |-> FALSE, m |-> 0]

\* The package variables of the singleton at program start, with no call made.
InitSingleton ==
    /\ instance = [stored |-> FALSE, ptr |-> 0]
    /\ initOnce = FreshOnce
    /\ initError = NoError
    /\ resetMu = 0
    /\ heap = <<>>
    /\ pc = [t \in Threads |-> "idle"]
    /\ call = [t \in Threads |-> NoCall]
    /\ didRun = [t \in Threads |-> FALSE]
    /\ info = [t \in Threads |-> 0]
    /\ ret = [t \in Threads |-> NoRet]
    /\ calls = 0
    /\ bodyRuns = 0
    /\ initBy = "none"
    /\ epoch = 0

svars == <<instance, initOnce, initError, resetMu, heap, pc, call, didRun, info, ret,
           calls, bodyRuns, initBy, epoch>>

Init ==
    /\ env \in Envs
    /\ InitSingleton
    /\ run = NoRun
    /\ obj = NoObj
    /\ sem = NoSem
    /\ web = NoWeb

(***************************************************************************)
(* The lifecycle state of the singleton (spec 4.5), read off the package   *)
(* variables: the once body is in flight while a goroutine holds the       *)
(* once's mutex and done is not yet set.                                   *)
(***************************************************************************)
State ==
    IF ~initOnce.done
    THEN (IF initOnce.m # 0 THEN "Initializing" ELSE "Uninitialized")
    ELSE IF initError # NoError THEN "Failed"
    ELSE IF instance.ptr # 0 THEN "Ready"
    ELSE "Unpublished"

Snapshot == <<instance, initError, initOnce.done>>

\* Goroutine t starts call number calls + 1.  Calls are made while no Reset
\* is running (Reset is documented as requiring exclusive access).  The
\* goroutines are interchangeable: goroutine 1 is the one making the first
\* call.
Enter(t, op, options, next) ==
    /\ pc[t] = "idle"
    /\ calls < MaxCalls
    /\ calls = 0 => t = 1
    /\ resetMu = 0
    /\ calls' = calls + 1
    /\ call' = [call EXCEPT ![t] =
                    [op |-> op, options |-> options, state |-> State, snap |-> Snapshot,
                     seq |-> calls + 1, alone |-> \A u \in Threads \ {t} : pc[u] = "idle"]]
    /\ pc' = [pc EXCEPT ![t] = next]

Result(ptr, err) ==
    [done |-> TRUE, info |-> ptr, err |-> err, ok |-> FALSE, panicked |-> FALSE,
     didRun |-> FALSE, epoch |-> epoch]

\* The call of goroutine t returns r; its locals are gone.
Return(t, r) ==
    /\ pc' = [pc EXCEPT ![t] = "idle"]
    /\ ret' = [ret EXCEPT ![t] = r]
    /\ didRun' = [didRun EXCEPT ![t] = FALSE]
    /\ info' = [info EXCEPT ![t] = 0]

\* instance.Load() followed by the type assertion and nil check that Get and
\* IsInitialized make: the *Info, or 0.
LoadInstance == IF instance.stored /\ instance.ptr # 0 THEN instance.ptr ELSE 0

(***************************************************************************)
(* sync.Once.Do(f), as called by Initialize and Get:                       *)
(*   if o.done.Load() == 0 {                                               *)
(*       o.m.Lock(); defer o.m.Unlock()                                    *)
(*       if o.done.Load() == 0 { defer o.done.Store(1); f() } }            *)
(***************************************************************************)
AfterDo(t) == IF call[t].op = "Initialize" THEN "init_ret" ELSE "get_err"

\* Initialize: didRun := false; initOnce.Do's first load of done.
InitializeBegin(t) ==
    /\ \E options \in InitializeOptions :
          Enter(t, "Initialize", options, IF initOnce.done THEN "init_ret" ELSE "do_lock")
    /\ didRun' = [didRun EXCEPT ![t] = FALSE]
    /\ ret' = [ret EXCEPT ![t] = NoRet]
    /\ UNCHANGED <<run, obj, sem, web, env, instance, initOnce, initError, resetMu, heap, info, bodyRuns, initBy, epoch>>

\* What Get returns to its caller; MustGet panics when it is an error.
GetResult(op, ptr, err) ==
    [Result(ptr, err) EXCEPT !.panicked = (op = "MustGet" /\ err # NoError)]

\* Get (directly or from MustGet): the fast path.
GetBegin(t) ==
    /\ \E op \in {"Get", "MustGet"} :
          Enter(t, op, GetOptions, IF LoadInstance # 0 THEN "idle" ELSE "do_check")
    /\ ret' = [ret EXCEPT ![t] = IF LoadInstance # 0
                                 THEN GetResult("Get", LoadInstance, NoError) ELSE NoRet]
    /\ didRun' = [didRun EXCEPT ![t] = FALSE]
    /\ UNCHANGED <<run, obj, sem, web, env, instance, initOnce, initError, resetMu, heap, info, bodyRuns, initBy, epoch>>

\* Get's initOnce.Do: the first load of done.
OnceCheck(t) ==
    /\ pc[t] = "do_check"
    /\ pc' = [pc EXCEPT ![t] = IF initOnce.done THEN AfterDo(t) ELSE "do_lock"]
    /\ UNCHANGED <<run, obj, sem, web, env, instance, initOnce, initError, resetMu, heap, call, didRun, info, ret,
                   calls, bodyRuns, initBy, epoch>>

\* A once whose slow path takes no mutex.
OnceLockNoMutex(t) ==
    /\ pc[t] = "do_lock"
    /\ initOnce' = [initOnce EXCEPT !.m = t]
    /\ pc' = [pc EXCEPT ![t] = IF initOnce.done THEN "do_unlock" ELSE "do_body"]
    /\ UNCHANGED <<run, obj, sem, web, env, instance, initError, resetMu, heap, call, didRun, info, ret,
                   calls, bodyRuns, initBy, epoch>>

\* A once whose callers do not wait for a body that is in flight.
OnceLockNoWait(t) ==
    /\ pc[t] = "do_lock"
    /\ IF initOnce.m = 0
       THEN /\ initOnce' = [initOnce EXCEPT !.m = t]
            /\ pc' = [pc EXCEPT ![t] = IF initOnce.done THEN "do_unlock" ELSE "do_body"]
       ELSE /\ initOnce' = initOnce
            /\ pc' = [pc EXCEPT ![t] = AfterDo(t)]
    /\ UNCHANGED <<run, obj, sem, web, env, instance, initError, resetMu, heap, call, didRun, info, ret,
                   calls, bodyRuns, initBy, epoch>>

\* doSlow: o.m.Lock() and the second load of done.
OnceLock(t) ==
    /\ pc[t] = "do_lock"
    /\ initOnce.m = 0
    /\ initOnce' = [initOnce EXCEPT !.m = t]
    /\ pc' = [pc EXCEPT ![t] = IF initOnce.done THEN "do_unlock" ELSE "do_body"]
    /\ UNCHANGED <<run, obj, sem, web, env, instance, initError, resetMu, heap, call, didRun, info, ret,
                   calls, bodyRuns, initBy, epoch>>

\* A once body that publishes the Info before the validators have accepted it.
OnceBodyUnvalidated(t) ==
    /\ pc[t] = "do_body"
    /\ LET r == loadVersionInfo(call[t].options, env, calls)
           u == loadVersionInfo([call[t].options EXCEPT !.validators = <<>>], env, calls)
       IN /\ initError' = r.err
          /\ IF u.err = NoError
             THEN /\ heap' = Append(heap, u.info)
                  /\ info' = [info EXCEPT ![t] = Len(heap) + 1]
                  /\ pc' = [pc EXCEPT ![t] = "do_store"]
             ELSE /\ heap' = heap
                  /\ info' = [info EXCEPT ![t] = 0]
                  /\ pc' = [pc EXCEPT ![t] = "do_done"]
    /\ didRun' = [didRun EXCEPT ![t] = (call[t].op = "Initialize")]
    /\ bodyRuns' = bodyRuns + 1
    /\ initBy' = call[t].op
    /\ UNCHANGED <<run, obj, sem, web, env, instance, initOnce, resetMu, call, ret, calls, epoch>>

\* The function passed to Do, up to the assignment of initError:
\*   didRun = true (Initialize only); info, initError = loadVersionInfo(opts...)
OnceBody(t) ==
    /\ pc[t] = "do_body"
    /\ LET r == Loads[call[t].options, env, calls]
       IN /\ initError' = r.err
          /\ IF r.err = NoError
             THEN /\ heap' = Append(heap, r.info)
                  /\ info' = [info EXCEPT ![t] = Len(heap) + 1]
                  /\ pc' = [pc EXCEPT ![t] = "do_store"]
             ELSE /\ heap' = heap
                  /\ info' = [info EXCEPT ![t] = 0]
                  /\ pc' = [pc EXCEPT ![t] = "do_done"]
    /\ didRun' = [didRun EXCEPT ![t] = (call[t].op = "Initialize")]
    /\ bodyRuns' = bodyRuns + 1
    /\ initBy' = call[t].op
    /\ UNCHANGED <<run, obj, sem, web, env, instance, initOnce, resetMu, call, ret, calls, epoch>>

\* if initError == nil { instance.Store(info) }
OnceStore(t) ==
    /\ pc[t] = "do_store"
    /\ instance' = [stored |-> TRUE, ptr |-> info[t]]
    /\ pc' = [pc EXCEPT ![t] = "do_done"]
    /\ UNCHANGED <<run, obj, sem, web, env, initOnce, initError, resetMu, heap, call, didRun, info, ret,
                   calls, bodyRuns, initBy, epoch>>

\* A once that stays armed when its body failed.
OnceDoneOnSuccess(t) ==
    /\ pc[t] = "do_done"
    /\ initOnce' = [initOnce EXCEPT !.done = (initError = NoError)]
    /\ pc' = [pc EXCEPT ![t] = "do_unlock"]
    /\ UNCHANGED <<run, obj, sem, web, env, instance, initError, resetMu, heap, call, didRun, info, ret,
                   calls, bodyRuns, initBy, epoch>>

\* defer o.done.Store(1)
OnceDone(t) ==
    /\ pc[t] = "do_done"
    /\ initOnce' = [initOnce EXCEPT !.done = TRUE]
    /\ pc' = [pc EXCEPT ![t] = "do_unlock"]
    /\ UNCHANGED <<run, obj, sem, web, env, instance, initError, resetMu, heap, call, didRun, info, ret,
                   calls, bodyRuns, initBy, epoch>>

\* defer o.m.Unlock()
OnceUnlock(t) ==
    /\ pc[t] = "do_unlock"
    /\ initOnce' = [initOnce EXCEPT !.m = 0]
    /\ pc' = [pc EXCEPT ![t] = AfterDo(t)]
    /\ UNCHANGED <<run, obj, sem, web, env, instance, initError, resetMu, heap, call, didRun, info, ret,
                   calls, bodyRuns, initBy, epoch>>

\* An Initialize that reports the stored outcome to every caller.
InitializeResultStored(ran, err) == err

\* What Initialize returns after Do.
InitializeResult(ran, err) == IF ~ran THEN ErrInitializeMultiple ELSE err

\* Initialize, after Do: if !didRun { return <already called> }; return initError
InitializeReturn(t) ==
    /\ pc[t] = "init_ret"
    /\ Return(t, [Result(0, InitializeResult(didRun[t], initError)) EXCEPT !.didRun = didRun[t]])
    /\ UNCHANGED <<run, obj, sem, web, env, instance, initOnce, initError, resetMu, heap, call,
                   calls, bodyRuns, initBy, epoch>>

\* A Get that does not look at initError after Do.
GetErrIgnored(t) ==
    /\ pc[t] = "get_err"
    /\ pc' = [pc EXCEPT ![t] = "get_load"]
    /\ UNCHANGED <<run, obj, sem, web, env, instance, initOnce, initError, resetMu, heap, call, didRun, info, ret,
                   calls, bodyRuns, initBy, epoch>>

\* Get, after Do: if initError != nil { return nil, initError }
GetErr(t) ==
    /\ pc[t] = "get_err"
    /\ IF initError # NoError
       THEN Return(t, GetResult(call[t].op, 0, initError))
       ELSE /\ pc' = [pc EXCEPT ![t] = "get_load"]
            /\ UNCHANGED <<ret, didRun, info>>
    /\ UNCHANGED <<run, obj, sem, web, env, instance, initOnce, initError, resetMu, heap, call,
                   calls, bodyRuns, initBy, epoch>>

\* A Get whose final load hands out whatever is stored, a nil *Info included.
GetLoadUnchecked(t) ==
    /\ pc[t] = "get_load"
    /\ Return(t, GetResult(call[t].op, LoadInstance, NoError))
    /\ UNCHANGED <<run, obj, sem, web, env, instance, initOnce, initError, resetMu, heap, call,
                   calls, bodyRuns, initBy, epoch>>

\* Get, the final load: a nil or typed-nil value gives ErrNotInitialized.
GetLoad(t) ==
    /\ pc[t] = "get_load"
    /\ Return(t, IF LoadInstance = 0 THEN GetResult(call[t].op, 0, ErrNotInitialized)
                 ELSE GetResult(call[t].op, LoadInstance, NoError))
    /\ UNCHANGED <<run, obj, sem, web, env, instance, initOnce, initError, resetMu, heap, call,
                   calls, bodyRuns, initBy, epoch>>

\* A New that hands out the singleton's Info once there is one.
NewShared(t) ==
    \E options \in NewOptions :
       LET r == Loads[options, env, calls]
           fresh == LoadInstance = 0 /\ r.err = NoError
       IN /\ Enter(t, "New", options, "idle")
          /\ heap' = IF fresh THEN Append(heap, r.info) ELSE heap
          /\ ret' = [ret EXCEPT ![t] =
                        IF LoadInstance # 0 THEN Result(LoadInstance, NoError)
                        ELSE Result(IF fresh THEN Len(heap) + 1 ELSE 0, r.err)]
          /\ UNCHANGED <<run, obj, sem, web, env, instance, initOnce, initError, resetMu, didRun, info,
                         bodyRuns, initBy, epoch>>

\* A New that also installs what it loaded as the singleton.
NewInstalls(t) ==
    \E options \in NewOptions :
       LET r == Loads[options, env, calls]
       IN /\ Enter(t, "New", options, "idle")
          /\ heap' = IF r.err = NoError THEN Append(heap, r.info) ELSE heap
          /\ instance' = IF r.err = NoError
                         THEN [stored |-> TRUE, ptr |-> Len(heap) + 1] ELSE instance
          /\ ret' = [ret EXCEPT ![t] =
                        Result(IF r.err = NoError THEN Len(heap) + 1 ELSE 0, r.err)]
          /\ UNCHANGED <<run, obj, sem, web, env, initOnce, initError, resetMu, didRun, info,
                         bodyRuns, initBy, epoch>>

\* New: loadVersionInfo(opts...), nothing else.
New(t) ==
    \E options \in NewOptions :
       LET r == Loads[options, env, calls]
       IN /\ Enter(t, "New", options, "idle")
          /\ heap' = IF r.err = NoError THEN Append(heap, r.info) ELSE heap
          /\ ret' = [ret EXCEPT ![t] =
                        Result(IF r.err = NoError THEN Len(heap) + 1 ELSE 0, r.err)]
          /\ UNCHANGED <<run, obj, sem, web, env, instance, initOnce, initError, resetMu, didRun, info,
                         bodyRuns, initBy, epoch>>

\* An IsInitialized that reports whether the once has been used.
IsInitializedByOnce(t) ==
    /\ Enter(t, "IsInitialized", defaultLoadOptions, "idle")
    /\ ret' = [ret EXCEPT ![t] = [Result(0, NoError) EXCEPT !.ok = initOnce.done]]
    /\ UNCHANGED <<run, obj, sem, web, env, instance, initOnce, initError, resetMu, heap, didRun, info,
                   bodyRuns, initBy, epoch>>

\* IsInitialized
IsInitialized(t) ==
    /\ Enter(t, "IsInitialized", defaultLoadOptions, "idle")
    /\ ret' = [ret EXCEPT ![t] = [Result(0, NoError) EXCEPT !.ok = (LoadInstance # 0)]]
    /\ UNCHANGED <<run, obj, sem, web, env, instance, initOnce, initError, resetMu, heap, didRun, info,
                   bodyRuns, initBy, epoch>>

\* A build in which every binary counts as a test binary.
TestingAlways == TRUE

\* testing.Testing()
Testing == env.testing

\* Reset: the testing.Testing() gate, then resetMu.Lock().  Reset is called
\* with exclusive access: no other goroutine is inside the package.
ResetBegin(t) ==
    /\ \A u \in Threads : pc[u] = "idle"
    /\ Enter(t, "Reset", defaultLoadOptions, IF Testing THEN "reset_store" ELSE "idle")
    /\ IF Testing
       THEN /\ resetMu' = t
            /\ epoch' = epoch + 1
            /\ ret' = [ret EXCEPT ![t] = NoRet]
       ELSE /\ resetMu' = resetMu
            /\ epoch' = epoch
            /\ ret' = [ret EXCEPT ![t] = [Result(0, NoError) EXCEPT !.panicked = TRUE]]
    /\ UNCHANGED <<run, obj, sem, web, env, instance, initOnce, initError, heap, didRun, info, bodyRuns, initBy>>

\* var nilInfo *Info; instance.Store(nilInfo)
ResetStore(t) ==
    /\ pc[t] = "reset_store"
    /\ instance' = [stored |-> TRUE, ptr |-> 0]
    /\ pc' = [pc EXCEPT ![t] = "reset_once"]
    /\ UNCHANGED <<run, obj, sem, web, env, initOnce, initError, resetMu, heap, call, didRun, info, ret,
                   calls, bodyRuns, initBy, epoch>>

\* A Reset that leaves the used-up once in place.
ResetOnceKept(t) ==
    /\ pc[t] = "reset_once"
    /\ pc' = [pc EXCEPT ![t] = "reset_err"]
    /\ UNCHANGED <<run, obj, sem, web, env, instance, initOnce, initError, resetMu, heap, call, didRun, info, ret,
                   calls, bodyRuns, initBy, epoch>>

\* initOnce = sync.Once{}
ResetOnce(t) ==
    /\ pc[t] = "reset_once"
    /\ initOnce' = FreshOnce
    /\ bodyRuns' = 0
    /\ initBy' = "none"
    /\ pc' = [pc EXCEPT ![t] = "reset_err"]
    /\ UNCHANGED <<run, obj, sem, web, env, instance, initError, resetMu, heap, call, didRun, info, ret,
                   calls, epoch>>

\* A Reset that leaves the stored error in place.
ResetErrKept(t) ==
    /\ pc[t] = "reset_err"
    /\ resetMu' = 0
    /\ Return(t, Result(0, NoError))
    /\ UNCHANGED <<run, obj, sem, web, env, instance, initOnce, initError, heap, call, calls,
                   bodyRuns, initBy, epoch>>

\* initError = nil, and the deferred resetMu.Unlock()
ResetErr(t) ==
    /\ pc[t] = "reset_err"
    /\ initError' = NoError
    /\ resetMu' = 0
    /\ Return(t, Result(0, NoError))
    /\ UNCHANGED <<run, obj, sem, web, env, instance, initOnce, heap, call, calls, bodyRuns, initBy, epoch>>

Next ==
    \E t \in Threads :
        \/ InitializeBegin(t)
        \/ GetBegin(t)
        \/ OnceCheck(t)
        \/ OnceLock(t)
        \/ OnceBody(t)
        \/ OnceStore(t)
        \/ OnceDone(t)
        \/ OnceUnlock(t)
        \/ InitializeReturn(t)
        \/ GetErr(t)
        \/ GetLoad(t)
        \/ New(t)
        \/ IsInitialized(t)
        \/ ResetBegin(t)
        \/ ResetStore(t)
        \/ ResetOnce(t)
        \/ ResetErr(t)

Spec == Init /\ [][Next]_vars

(***************************************************************************)
(* Reading a step: which goroutine took it, and whether its call began or  *)
(* returned in it.                                                         *)
(***************************************************************************)
Enters(t) == calls' = calls + 1 /\ call'[t].seq = calls'

Steps(t) == Enters(t) \/ pc'[t] # pc[t]

Returns(t) == Steps(t) /\ pc'[t] = "idle"

\* No other goroutine was inside the package when goroutine t entered its
\* call, and none has entered since.
Alone(t) ==
    /\ call[t].alone
    /\ \A u \in Threads \ {t} : pc[u] = "idle" /\ call[u].seq < call[t].seq

\* Goroutine t's last call returned, and no Reset has begun since.
Returned(t, ops) == ret[t].done /\ ret[t].epoch = epoch /\ call[t].op \in ops

\* C1: when two or more goroutines call Initialize and Get concurrently on
\* the uninitialized singleton, the once body (the load pipeline) runs
\* exactly once between two Resets, and every Get that returns an Info
\* returns the one stored instance.
C1_BodyOnceSameInstance ==
    /\ bodyRuns <= 1
    /\ \A t \in Threads :
          Returned(t, {"Initialize", "Get", "MustGet"}) => bodyRuns = 1
    /\ \A t \in Threads :
          (Returned(t, {"Get", "MustGet"}) /\ ret[t].info # 0)
             => /\ ret[t].info = instance.ptr
                /\ \A u \in Threads :
                      (Returned(u, {"Get", "MustGet"}) /\ ret[u].info # 0)
                         => ret[u].info = ret[t].info

\* An Initialize and a Get that both entered while the singleton was
\* uninitialized have both returned, the Get with the instance.
C1_Witness ==
    \E t, u \in Threads :
       /\ t # u
       /\ Returned(t, {"Initialize"}) /\ call[t].state = "Uninitialized"
       /\ Returned(u, {"Get"}) /\ call[u].state = "Uninitialized"
       /\ ret[u].info # 0 /\ ret[u].info = instance.ptr
       /\ bodyRuns = 1

\* C2: an Initialize that finds the singleton no longer uninitialized (after
\* a successful or failed Initialize, after an auto-initializing Get or
\* MustGet, or while another goroutine is initializing) leaves the stored
\* instance and error alone, does not run the pipeline, and returns the
\* already-initialized error.
C2_InitializeTwice ==
    [][\A t \in Threads :
          (Steps(t) /\ call'[t].op = "Initialize" /\ call'[t].state # "Uninitialized")
             => /\ instance' = instance
                /\ initError' = initError
                /\ bodyRuns' = bodyRuns
                /\ heap' = heap
                /\ Returns(t) => (ret'[t].err = ErrInitializeMultiple /\ ~ret'[t].didRun)]_vars

\* An Initialize made after a Get auto-initialized the singleton has returned
\* the already-initialized error.
C2_Witness ==
    \E t \in Threads :
       /\ Returned(t, {"Initialize"})
       /\ call[t].state = "Ready"
       /\ initBy = "Get"
       /\ ret[t].err = ErrInitializeMultiple

\* C3: while the singleton is in the Failed state, no step of a Get or
\* MustGet runs the pipeline or changes the stored error, and a Get that
\* returns, returns the stored error and no Info.
C3_FailedIsSticky ==
    [][\A t \in Threads :
          (Steps(t) /\ call'[t].op \in {"Get", "MustGet"} /\ State = "Failed")
             => /\ bodyRuns' = bodyRuns
                /\ initError' = initError
                /\ instance' = instance
                /\ State' = "Failed"
                /\ Returns(t) => (ret'[t].err = initError /\ ret'[t].info = 0)]_vars

\* Two Gets made after an initialization failed have both returned the stored
\* error.
C3_Witness ==
    /\ State = "Failed"
    /\ \A t \in Threads :
          /\ Returned(t, {"Get"})
          /\ call[t].state = "Failed"
          /\ ret[t].err = initError
    /\ bodyRuns = 1

\* C4: when the pipeline run by Initialize or by an auto-initializing Get
\* fails (loading or parsing the manifest, or a validator), no Info is
\* stored: until Reset, IsInitialized reports false and no Get returns an
\* Info.
C4_NothingStoredOnFailure ==
    (bodyRuns >= 1 /\ initError # NoError)
       => /\ LoadInstance = 0
          /\ \A t \in Threads :
                /\ Returned(t, {"Get", "MustGet"}) => ret[t].info = 0
                /\ Returned(t, {"IsInitialized"}) => ~ret[t].ok

\* An Initialize failed in a validator; afterwards a Get returned the error
\* and IsInitialized returned false.
C4_Witness ==
    /\ State = "Failed"
    /\ initBy = "Initialize"
    /\ initError.category = "validation"
    /\ \E t, u \in Threads :
          /\ Returned(t, {"Get"}) /\ call[t].state = "Failed" /\ ret[t].err = initError
          /\ Returned(u, {"IsInitialized"}) /\ call[u].state = "Failed" /\ ~ret[u].ok

\* C5: a Get returns only the stored instance, and while an instance is
\* stored no step outside Reset replaces it, clears it or changes the Info
\* it points to; so every Get after the first that returned X returns X.
C5_InstanceIsStable ==
    [][/\ \A t \in Threads :
             (Returns(t) /\ call'[t].op \in {"Get", "MustGet"} /\ ret'[t].info # 0)
                => ret'[t].info = LoadInstance
       /\ (LoadInstance # 0 /\ resetMu = 0)
             => /\ instance' = instance
                /\ heap'[instance.ptr] = heap[instance.ptr]
                /\ \A t \in Threads :
                      (Returns(t) /\ call'[t].op \in {"Get", "MustGet"})
                         => (ret'[t].info = instance.ptr /\ ret'[t].err = NoError)]_vars

\* The first call, a Get, auto-initialized the singleton and returned X;
\* after another call in between, the third call, a MustGet, returned X again.
C5_Witness ==
    \E t, u \in Threads :
       /\ t # u
       /\ Returned(t, {"Get"}) /\ call[t].seq = 1 /\ ret[t].info # 0
       /\ Returned(u, {"MustGet"}) /\ call[u].seq = 3 /\ ret[u].info = ret[t].info

\* C6 as stated: when an Initialize made with no other goroutine active
\* returns an error, the stored instance, the stored error and the
\* run-once guard are what they were before the call.
C6_FailedInitializeChangesNothing ==
    [][\A t \in Threads :
          (Returns(t) /\ call'[t].op = "Initialize" /\ ret'[t].err # NoError /\ Alone(t))
             => Snapshot' = call[t].snap]_vars

\* C6, amended: when the pipeline run by an Initialize fails, the stored
\* instance is what it was before the call (nothing is published), but the
\* returned error is recorded in initError and the run-once guard is used up.
C6_FailedInitializeEffect ==
    [][\A t \in Threads :
          (Returns(t) /\ call'[t].op = "Initialize" /\ ret'[t].didRun /\ ret'[t].err # NoError)
             => /\ call[t].snap = <<instance', NoError, FALSE>>
                /\ LoadInstance' = 0
                /\ initError' = ret'[t].err
                /\ initOnce'.done]_vars

\* An Initialize ran the pipeline, which failed; the error it returned is
\* stored and the guard is used up.
C6_Witness ==
    \E t \in Threads :
       /\ Returned(t, {"Initialize"})
       /\ ret[t].didRun
       /\ ret[t].err # NoError
       /\ initError = ret[t].err
       /\ initOnce.done
       /\ LoadInstance = 0

\* "Initialize was called and failed": the once body was run by Initialize
\* and left an error.
InitializeFailed == initOnce.done /\ initBy = "Initialize" /\ initError # NoError

\* C7 as stated: a Get returns ErrNotInitialized exactly when Initialize
\* was called before and failed.
C7_NotInitializedIffInitializeFailed ==
    [][\A t \in Threads :
          (Returns(t) /\ call'[t].op = "Get")
             => (ret'[t].err = ErrNotInitialized <=> InitializeFailed)]_vars

\* C8: New changes nothing of the singleton (instance, once, stored error,
\* lifecycle state), its outcome is that of loadVersionInfo on its own
\* options, and the Info it returns is a new object: not the singleton's and
\* not one returned before.
C8_NewIsIndependent ==
    [][\A t \in Threads :
          (Enters(t) /\ call'[t].op = "New")
             => /\ instance' = instance
                /\ initOnce' = initOnce
                /\ initError' = initError
                /\ State' = State
                /\ bodyRuns' = bodyRuns
                /\ ret'[t].err = Loads[call'[t].options, env, 0].err
                /\ (ret'[t].info = 0) <=> (ret'[t].err # NoError)
                /\ \A i \in 1..Len(heap) : heap'[i] = heap[i]
                /\ ret'[t].info # 0
                      => /\ ret'[t].info \notin 1..Len(heap)
                         /\ ret'[t].info # LoadInstance'
                         /\ heap'[ret'[t].info].Project
                               = Loads[call'[t].options, env, 0].info.Project]_vars

\* New returned an Info on the uninitialized singleton; a later Initialize
\* still ran the pipeline, and the singleton's Info is another object.
C8_Witness ==
    \E t, u \in Threads :
       /\ Returned(t, {"New"}) /\ call[t].state = "Uninitialized" /\ ret[t].info # 0
       /\ Returned(u, {"Initialize"}) /\ call[u].seq > call[t].seq
       /\ ret[u].didRun /\ ret[u].err = NoError
       /\ LoadInstance # 0 /\ LoadInstance # ret[t].info

\* C9: when Reset returns in a test binary (it runs with no other goroutine
\* inside the package), nothing is stored (IsInitialized is false), the
\* stored error is nil and the singleton is Uninitialized again; and an
\* Initialize that then enters alone runs the pipeline on its own options
\* and, when that succeeds, the singleton holds the Info of its manifest.
C9_ResetRearms ==
    [][\A t \in Threads :
          /\ (Returns(t) /\ call'[t].op = "Reset" /\ env.testing)
                => /\ LoadInstance' = 0
                   /\ initError' = NoError
                   /\ State' = "Uninitialized"
          /\ (/\ Returns(t) /\ call'[t].op = "Initialize"
              /\ call'[t].state = "Uninitialized" /\ Alone(t))
                => /\ ret'[t].didRun
                   /\ ret'[t].err = Loads[call[t].options, env, 0].err
                   /\ initError' = ret'[t].err
                   /\ ret'[t].err = NoError
                         => /\ LoadInstance' # 0
                            /\ heap'[LoadInstance'].Project
                                  = Loads[call[t].options, env, 0].info.Project]_vars

\* The singleton was initialized from the test-app manifest and reset; an
\* Initialize with the new-app manifest then ran the pipeline and succeeded,
\* and the singleton holds new-app 2.0.0.
C9_Witness ==
    /\ epoch = 1
    /\ Len(heap) = 2
    /\ heap[1].Project.Name = "test-app"
    /\ LoadInstance = 2
    /\ heap[2].Project = [Name |-> "new-app", Version |-> "2.0.0"]
    /\ \E t \in Threads :
          /\ Returned(t, {"Initialize"})
          /\ call[t].options = OptNewApp
          /\ ret[t].didRun /\ ret[t].err = NoError

\* C10: outside a test binary Reset panics in its first step, with the
\* instance, the once, the stored error and resetMu untouched, and none of
\* Reset's later steps is ever taken.
C10_ResetPanicsOutsideTests ==
    [][\A t \in Threads :
          /\ (Enters(t) /\ call'[t].op = "Reset" /\ ~env.testing)
                => /\ Returns(t)
                   /\ ret'[t].panicked
                   /\ instance' = instance
                   /\ initOnce' = initOnce
                   /\ initError' = initError
                   /\ resetMu' = resetMu
          /\ pc'[t] \in {"reset_store", "reset_once", "reset_err"} => env.testing]_vars

\* In a production binary, Reset was called on the initialized singleton and
\* panicked; the instance is still there.
C10_Witness ==
    /\ ~env.testing
    /\ LoadInstance # 0
    /\ \E t \in Threads :
          Returned(t, {"Reset"}) /\ call[t].state = "Ready" /\ ret[t].panicked

(***************************************************************************)
(* One run of loadVersionInfo, followed statement by statement: the        *)
(* options are applied to the defaults in the order they were passed, the  *)
(* manifest is resolved, converted, enriched by the three git sources and  *)
(* the build source, and handed to the validators one after the other.     *)
(* run.reads lists the paths given to os.ReadFile, run.invoked the         *)
(* validators whose Validate has been called.                              *)
(***************************************************************************)
MaxValidators == 2

\* An Option is [name, arg]; opt(options) applies it to the LoadOptions.
applyOption(o, opt) ==
    CASE opt.name = "WithManifestPath" -> WithManifestPath(o, opt.arg)
      [] opt.name = "WithEmbedded" -> WithEmbedded(o, opt.arg)
      [] opt.name = "WithoutGitInfo" -> WithoutGitInfo(o)
      [] opt.name = "WithoutBuildInfo" -> WithoutBuildInfo(o)
      [] opt.name = "WithValidators" -> WithValidators(o, opt.arg)
      [] opt.name = "WithStrictMode" -> WithStrictMode(o)

\* loadVersionInfo: for _, opt := range opts { opt(options) }
RECURSIVE applyOptions(_, _)
applyOptions(o, opts) ==
    IF opts = <<>> THEN o ELSE applyOptions(applyOption(o, Head(opts)), Tail(opts))

\* loadManifest: the paths it passes to os.ReadFile.
loadManifestReads(options) ==
    IF options.manifestEmbed.len > 0 THEN <<>>
    ELSE IF options.manifestPath # "" THEN <<options.manifestPath>>
    ELSE <<>>

Opt(name, arg) == [name |-> name, arg |-> arg]

\* A manifest for project svc 1.2.3 with the given further top-level keys.
SvcDoc(sections) ==
    YAMLDoc([manifest_version |-> "1.0", project |-> [name |-> "svc", version |-> "1.2.3"]]
            @@ sections)

DocNoName == YAMLDoc([manifest_version |-> "1.0", project |-> [version |-> "1.2.3"]])

\* How the manifest is supplied: nothing (the default path), embedded bytes
\* that are good, malformed, incomplete or empty, a path, or no path at all.
SourceOptions ==
    {<<>>,
     <<Opt("WithEmbedded", DocNewApp)>>,
     <<Opt("WithEmbedded", DocNewApp), Opt("WithManifestPath", "app.yaml")>>,
     <<Opt("WithEmbedded", InvalidYAML), Opt("WithManifestPath", "app.yaml")>>,
     <<Opt("WithEmbedded", DocNoVersion), Opt("WithManifestPath", "app.yaml")>>,
     <<Opt("WithEmbedded", DocNoName)>>,
     <<Opt("WithEmbedded", NoBytes), Opt("WithManifestPath", "app.yaml")>>,
     <<Opt("WithManifestPath", "app.yaml")>>,
     <<Opt("WithManifestPath", "")>>}

File(data) == [readable |-> TRUE, data |-> data]

\* What is on disk: nothing, or app.yaml good, malformed, without a project
\* version, empty, or unreadable.
FileSystems ==
    {<<>>}
    \cup {[x \in {"app.yaml"} |-> f] :
            f \in {File(DocTestApp), File(InvalidYAML), File(DocNoVersion), File(NoBytes),
                   [readable |-> FALSE, data |-> NoBytes]}}

Chars(a, b, c, d, e, f, g) == <<a, b, c, d, e, f, g>>

\* Forty hexadecimal characters, the length of a full SHA-1.
FullHash ==
    Chars("a", "b", "c", "1", "2", "3", "d") \o Chars("e", "f", "4", "5", "6", "7", "8")
    \o Chars("9", "0", "1", "2", "3", "4", "5") \o Chars("6", "7", "8", "9", "0", "1", "2")
    \o Chars("3", "4", "5", "6", "7", "8", "9") \o <<"0", "a", "b", "c", "d">>

\* What exec.LookPath and the two git commands give on a machine:
\* <<runtime.GOOS, LookPath, git rev-parse HEAD, git describe>>.
GitBinaries ==
    {<<"linux", [ok |-> TRUE, path |-> "/usr/bin/git"],
       [ok |-> FALSE, out |-> <<>>], [ok |-> FALSE, out |-> <<>>]>>,
     <<"linux", [ok |-> TRUE, path |-> "/usr/bin/git"],
       [ok |-> TRUE, out |-> Chars("f", "e", "d", "c", "b", "a", "9") \o <<"\n">>],
       [ok |-> TRUE, out |-> <<"v", "2", "\n">>]>>,
     <<"linux", [ok |-> FALSE, path |-> ""],
       [ok |-> TRUE, out |-> Chars("f", "e", "d", "c", "b", "a", "9") \o <<"\n">>],
       [ok |-> TRUE, out |-> <<"v", "2", "\n">>]>>,
     <<"linux", [ok |-> TRUE, path |-> "/tmp/git"],
       [ok |-> TRUE, out |-> Chars("f", "e", "d", "c", "b", "a", "9") \o <<"\n">>],
       [ok |-> TRUE, out |-> <<"v", "2", "\n">>]>>,
     <<"linux", [ok |-> TRUE, path |-> "/usr/bin/git"],
       [ok |-> TRUE, out |-> Chars("f", "a", "t", "a", "l", ":", " ") \o <<"\n">>],
       [ok |-> FALSE, out |-> <<>>]>>,
     <<"windows", [ok |-> TRUE, path |-> "C:\\Git\\cmd\\git.exe"],
       [ok |-> TRUE, out |-> Chars("f", "e", "d", "c", "b", "a", "9") \o <<"\r", "\n">>],
       [ok |-> TRUE, out |-> <<"v", "2", "\r", "\n">>]>>,
     <<"darwin", [ok |-> TRUE, path |-> "/Users/dev/bin/git"],
       [ok |-> TRUE, out |-> Chars("f", "e", "d", "c", "b", "a", "9") \o <<"\n">>],
       [ok |-> TRUE, out |-> <<"v", "2", "\n">>]>>,
     <<"linux", [ok |-> TRUE, path |-> "/usr/local/bin/git"],
       [ok |-> TRUE, out |-> <<"a", "b", "c", "1", "2", "3", "\n">>],
       [ok |-> FALSE, out |-> <<>>]>>,
     <<"darwin", [ok |-> TRUE, path |-> "/opt/homebrew/bin/git"],
       [ok |-> TRUE, out |-> FullHash \o <<"\n">>],
       [ok |-> FALSE, out |-> <<>>]>>,
     <<"linux", [ok |-> TRUE, path |-> "/usr/bin/git"],
       [ok |-> TRUE, out |-> FullHash \o <<"e", "\n">>],
       [ok |-> FALSE, out |-> <<>>]>>,
     <<"linux", [ok |-> TRUE, path |-> "/usr/bin/git"],
       [ok |-> TRUE, out |-> <<" ", "\t">> \o Chars("A", "b", "C", "1", "2", "3", "D") \o <<"\r", "\n">>],
       [ok |-> FALSE, out |-> <<>>]>>}

\* What the three git sources report: the -ldflags variables, the settings of
\* debug.ReadBuildInfo, and the git binary.
GitEnvs ==
    {[BaseEnv EXCEPT !.GitCommit = l[1], !.GitTag = l[2], !.GitTreeState = l[3],
                     !.buildInfoOK = b[1], !.buildSettings = b[2],
                     !.goos = g[1], !.lookPath = g[2], !.revParse = g[3], !.describe = g[4]] :
        l \in {<<DefaultGitCommit, <<>>, DefaultGitTreeState>>,
               <<Chars("a", "b", "c", "1", "2", "3", "4"), <<"v", "1">>, GitTreeStateDirty>>,
               <<Chars("a", "b", "c", "1", "2", "3", "4"), <<>>, "archive">>,
               <<DefaultGitCommit, <<"v", "1">>, DefaultGitTreeState>>},
        b \in {<<FALSE, <<>> >>,
               <<TRUE, <<>> >>,
               <<TRUE, <<[Key |-> VCSKeyRevision, Value |-> Chars("0", "1", "2", "3", "4", "5", "6")],
                         [Key |-> VCSKeyTime, Value |-> "2025-10-11T15:00:00Z"],
                         [Key |-> VCSKeyModified, Value |-> "true"]>> >>,
               <<TRUE, <<[Key |-> VCSKeyModified, Value |-> "false"],
                         [Key |-> "GOOS", Value |-> "linux"]>> >>},
        g \in GitBinaries}

\* A manifest whose Custom section says environment: production.
DocProduction == SvcDoc([Custom |-> [environment |-> Scalar("production")]])

GitOptions ==
    {<<Opt("WithEmbedded", DocNewApp)>>,
     <<Opt("WithEmbedded", DocNewApp), Opt("WithoutGitInfo", <<>>)>>,
     <<Opt("WithEmbedded", DocNewApp), Opt("WithoutBuildInfo", <<>>)>>,
     <<Opt("WithEmbedded", DocProduction),
       Opt("WithValidators", <<[dimensionType |-> "func", name |-> "requireGitTag"]>>)>>}

\* What the build pass reads: the -ldflags variables BuildTime and BuildUser,
\* each injected or left alone, and runtime.Version().
BuildEnvs ==
    {[BaseEnv EXCEPT !.BuildTime = t, !.BuildUser = u, !.goVersion = v] :
        t \in {DefaultBuildTime, "2025-10-11T15:00:00Z"},
        u \in {DefaultBuildUser, "testuser"},
        v \in {"go1.24.6", "go1.25.0"}}

BuildOptions ==
    {<<Opt("WithEmbedded", DocTestApp)>>,
     <<Opt("WithEmbedded", DocTestApp), Opt("WithoutBuildInfo", <<>>)>>,
     <<Opt("WithEmbedded", DocTestApp), Opt("WithoutGitInfo", <<>>)>>,
     <<Opt("WithEmbedded", DocTestApp), Opt("WithoutGitInfo", <<>>),
       Opt("WithoutBuildInfo", <<>>)>>}

\* The version strings manifests and validators carry.
VersionStrings ==
    {<<"4", "7">>, <<"4", "5">>, <<"5", "0">>,
     <<"1", ".", "2", ".", "3">>,
     Chars("1", ".", "2", ".", "3", "-", "a"),
     Chars("1", ".", "2", ".", "3", "+", "b"),
     Chars("1", ".", "2", ".", "3", "+", "c"),
     <<"x">>}

\* Manifests with schema db at each version, without the key db, without
\* the section, and with the section under the key schemas.
SchemaDocs ==
    {SvcDoc([Schemas |-> [db |-> a]]) : a \in VersionStrings}
    \cup {SvcDoc([Schemas |-> [cache |-> <<"3">>]]), SvcDoc(<<>>),
          SvcDoc([schemas |-> [db |-> <<"4", "7">>]])}

MinAPI(name, minVersion) == [dimensionType |-> "API", name |-> name, minVersion |-> minVersion]

\* The validators lists are made of: two the test manifest passes, two it
\* fails.
SomeValidators ==
    {MinSchema("db", <<"4", "5">>), [dimensionType |-> "func", name |-> "noDevVersion"],
     MinSchema("db", <<"5", "0">>), MinAPI("rest", <<"1">>)}

RECURSIVE Lists(_, _)
Lists(S, n) ==
    IF n = 0 THEN {<<>>} ELSE Lists(S, n - 1) \cup {<<x>> \o l : x \in S, l \in Lists(S, n - 1)}

\* One or two WithValidators options carrying at most MaxValidators
\* validators between them.
ValidatorOptions ==
    {<<Opt("WithEmbedded", DocTestApp), Opt("WithValidators", l)>> :
        l \in Lists(SomeValidators, MaxValidators)}
    \cup {<<Opt("WithEmbedded", DocTestApp), Opt("WithValidators", SubSeq(l, 1, 1)),
           Opt("WithValidators", SubSeq(l, 2, Len(l)))>> :
             l \in Lists(SomeValidators, MaxValidators) \ {<<>>}}

StartRun(opts) ==
    [pc |-> "options", opts |-> opts, options |-> defaultLoadOptions,
     manifest |-> NoManifest, err |-> NoError, info |-> NilInfo,
     reads |-> <<>>, execs |-> <<>>, invoked |-> <<>>]

\* A run starts with an option list and an environment: the manifest
\* sources against the file systems, the git sources, a schema validator
\* against the schema manifests, and the validator lists.
InitLoad ==
    /\ InitSingleton
    /\ obj = NoObj
    /\ sem = NoSem
    /\ web = NoWeb
    /\ \/ /\ env \in {[BaseEnv EXCEPT !.fs = fs] : fs \in FileSystems}
          /\ \E src \in SourceOptions, strict \in {<<>>, <<Opt("WithStrictMode", <<>>)>>} :
                run = StartRun(src \o strict)
       \/ /\ env \in GitEnvs
          /\ \E opts \in GitOptions : run = StartRun(opts)
       \/ /\ env \in BuildEnvs
          /\ \E opts \in BuildOptions : run = StartRun(opts)
       \/ /\ env = BaseEnv
          /\ \E doc \in SchemaDocs, minVersion \in VersionStrings :
                run = StartRun(<<Opt("WithEmbedded", doc),
                                 Opt("WithValidators", <<MinSchema("db", minVersion)>>)>>)
       \/ /\ env = BaseEnv
          /\ \E opts \in ValidatorOptions : run = StartRun(opts)

\* options := defaultLoadOptions(); for _, opt := range opts { opt(options) }
RunOptions ==
    /\ run.pc = "options"
    /\ run' = [run EXCEPT !.pc = "load", !.options = applyOptions(defaultLoadOptions, run.opts)]
    /\ UNCHANGED <<svars, obj, sem, web, env>>

\* manifest, err := loadManifest(options)
RunLoadManifest ==
    /\ run.pc = "load"
    /\ run' = [run EXCEPT !.pc = "loaded",
                          !.manifest = loadManifest(run.options, env.fs).manifest,
                          !.err = loadManifest(run.options, env.fs).err,
                          !.reads = loadManifestReads(run.options)]
    /\ UNCHANGED <<svars, obj, sem, web, env>>

\* if err != nil { ... }: return the error, or go on with the manifest or
\* with defaultManifest().
RunManifestError ==
    /\ run.pc = "loaded"
    /\ run' = IF manifestError(run.options, run.err) # NoError
              THEN [run EXCEPT !.pc = "done", !.err = manifestError(run.options, run.err)]
              ELSE [run EXCEPT !.pc = "manifest", !.err = NoError,
                               !.manifest = IF run.err # NoError THEN defaultManifest ELSE @]
    /\ UNCHANGED <<svars, obj, sem, web, env>>

\* time.Now() during the run.
RunClock == 1

\* info := manifestToInfo(manifest); info.loadedAt = time.Now()
RunManifestToInfo ==
    /\ run.pc = "manifest"
    /\ run' = [run EXCEPT !.pc = IF run.options.includeGit THEN "ldflags"
                                 ELSE IF run.options.includeBuild THEN "build" ELSE "validate",
                          !.info = [manifestToInfo(run.manifest, env.goVersion)
                                        EXCEPT !.loadedAt = RunClock]]
    /\ UNCHANGED <<svars, obj, sem, web, env>>

\* enrichWithGitInfo: applyLdflagsGitInfo(info)
RunLdflags ==
    /\ run.pc = "ldflags"
    /\ run' = [run EXCEPT !.pc = "buildinfo", !.info = applyLdflagsGitInfo(@, env)]
    /\ UNCHANGED <<svars, obj, sem, web, env>>

\* enrichWithGitInfo: applyBuildInfoGitData(info)
RunBuildInfo ==
    /\ run.pc = "buildinfo"
    /\ run' = [run EXCEPT !.pc = "gitcommand", !.info = applyBuildInfoGitData(@, env)]
    /\ UNCHANGED <<svars, obj, sem, web, env>>

\* applyGitCommandFallback: the commands getGitCommit and getGitTag hand to
\* exec.CommandContext, each after getGitBinary returned a path.
gitCommandExecs(i, e) ==
    (IF i.Git.Commit = DefaultGitCommit /\ getGitBinary(e) # ""
     THEN <<[path |-> getGitBinary(e), args |-> <<"rev-parse", "HEAD">>]>> ELSE <<>>)
    \o (IF i.Git.Tag = <<>> /\ getGitBinary(e) # ""
        THEN <<[path |-> getGitBinary(e), args |-> <<"describe", "--tags", "--exact-match">>]>>
        ELSE <<>>)

\* enrichWithGitInfo: applyGitCommandFallback(info)
RunGitCommand ==
    /\ run.pc = "gitcommand"
    /\ run' = [run EXCEPT !.pc = IF run.options.includeBuild THEN "build" ELSE "validate",
                          !.info = applyGitCommandFallback(@, env),
                          !.execs = gitCommandExecs(run.info, env)]
    /\ UNCHANGED <<svars, obj, sem, web, env>>

\* enrichWithBuildInfo(info)
RunBuild ==
    /\ run.pc = "build"
    /\ run' = [run EXCEPT !.pc = "validate", !.info = enrichWithBuildInfo(@, env)]
    /\ UNCHANGED <<svars, obj, sem, web, env>>

\* What the next validator of the loop returns.
NextValidator == run.options.validators[Len(run.invoked) + 1]

\* One iteration of the validator loop: validator.Validate(ctx, info), and
\* the return of nil and the wrapped error if it fails.
RunValidator ==
    /\ run.pc = "validate"
    /\ Len(run.invoked) < Len(run.options.validators)
    /\ run' = IF ValidatorValidate(NextValidator, run.info) # NoError
              THEN [run EXCEPT !.pc = "done", !.info = NilInfo,
                               !.invoked = Append(@, NextValidator),
                               !.err = wrapError(ValidatorValidate(NextValidator, run.info),
                                                 "validation", "validation failed")]
              ELSE [run EXCEPT !.invoked = Append(@, NextValidator)]
    /\ UNCHANGED <<svars, obj, sem, web, env>>

\* return info, nil
RunReturn ==
    /\ run.pc = "validate"
    /\ Len(run.invoked) = Len(run.options.validators)
    /\ run' = [run EXCEPT !.pc = "done"]
    /\ UNCHANGED <<svars, obj, sem, web, env>>

\* A caller that stores whatever the load returned.
RunPublishAlways ==
    /\ run.pc = "done"
    /\ run' = [run EXCEPT !.pc = "published"]
    /\ initError' = run.err
    /\ heap' = Append(heap, run.info)
    /\ instance' = [stored |-> TRUE, ptr |-> Len(heap) + 1]
    /\ UNCHANGED <<initOnce, resetMu, pc, call, didRun, info, ret, calls, bodyRuns, initBy,
                   epoch, obj, sem, web, env>>

\* The function Initialize and Get pass to initOnce.Do, after the load:
\*   info, initError = loadVersionInfo(opts...)
\*   if initError == nil { instance.Store(info) }
RunPublish ==
    /\ run.pc = "done"
    /\ run' = [run EXCEPT !.pc = "published"]
    /\ initError' = run.err
    /\ IF run.err = NoError
       THEN /\ heap' = Append(heap, run.info)
            /\ instance' = [stored |-> TRUE, ptr |-> Len(heap) + 1]
       ELSE UNCHANGED <<heap, instance>>
    /\ UNCHANGED <<initOnce, resetMu, pc, call, didRun, info, ret, calls, bodyRuns, initBy,
                   epoch, obj, sem, web, env>>

NextLoad ==
    \/ RunOptions
    \/ RunLoadManifest
    \/ RunManifestError
    \/ RunManifestToInfo
    \/ RunLdflags
    \/ RunBuildInfo
    \/ RunGitCommand
    \/ RunBuild
    \/ RunValidator
    \/ RunReturn
    \/ RunPublish

SpecLoad == InitLoad /\ [][NextLoad]_vars

\* The run is over and returned an *Info.
Loaded == run.pc \in {"done", "published"} /\ run.err = NoError

\* The run is over and returned an error.
LoadFailed == run.pc \in {"done", "published"} /\ run.err # NoError

\* The step-by-step run returns what loadVersionInfo returns.
RunIsLoadVersionInfo ==
    run.pc = "done" =>
        /\ run.err = loadVersionInfo(applyOptions(defaultLoadOptions, run.opts), env, RunClock).err
        /\ run.info = loadVersionInfo(applyOptions(defaultLoadOptions, run.opts), env, RunClock).info

(***************************************************************************)
(* Claims about the loader.                                                *)
(***************************************************************************)
\* loadManifest has returned and loadVersionInfo has not yet looked at err.
ManifestLoaded == run.pc = "loaded"

\* C11: embedded bytes take precedence.  When the embedded bytes are not
\* empty, the manifest and the error loadManifest returns are those of
\* parsing them and no file is read; if they do not parse, the load fails
\* whatever is on disk.  A file is read only when the embedded bytes are
\* empty, and then it is the file at the manifest path; with empty bytes and
\* an empty path nothing is read and the error is of the not-found kind.
C11_EmbeddedFirst ==
    LET embed == run.options.manifestEmbed
        path == run.options.manifestPath
    IN /\ (ManifestLoaded /\ embed.len > 0)
            => /\ run.reads = <<>>
               /\ run.manifest = parseManifest(embed).manifest
               /\ run.err = parseManifest(embed).err
       /\ (ManifestLoaded /\ embed.len = 0 /\ path # "") => run.reads = <<path>>
       /\ (ManifestLoaded /\ embed.len = 0 /\ path = "")
            => run.reads = <<>> /\ OsIsNotExist(run.err)
       /\ run.reads # <<>> => embed.len = 0
       /\ (run.pc = "done" /\ embed.len > 0 /\ parseManifest(embed).err # NoError)
            => LoadFailed /\ run.info = NilInfo /\ run.reads = <<>>

\* Embedded bytes were passed together with the path of a readable, good
\* file; the manifest is the embedded one and the file was not read.
C11_Witness ==
    /\ ManifestLoaded
    /\ run.options.manifestEmbed = DocNewApp
    /\ run.options.manifestPath = "app.yaml"
    /\ ReadFile(env.fs, "app.yaml").data = DocTestApp
    /\ run.manifest.Project.Name = "new-app"
    /\ run.reads = <<>>

\* No manifest source: no embedded bytes and no file at the manifest path
\* (or no path).
SourceAbsent ==
    /\ run.options.manifestEmbed.len = 0
    /\ run.options.manifestPath = "" \/ run.options.manifestPath \notin DOMAIN env.fs

\* A manifest source that is there but cannot be used: embedded bytes or a
\* file that do not parse into a manifest with a project name and version,
\* or a file that cannot be read.
SourceBroken ==
    IF run.options.manifestEmbed.len > 0
    THEN parseManifest(run.options.manifestEmbed).err # NoError
    ELSE /\ run.options.manifestPath # ""
         /\ run.options.manifestPath \in DOMAIN env.fs
         /\ \/ ~env.fs[run.options.manifestPath].readable
            \/ parseManifest(env.fs[run.options.manifestPath].data).err # NoError

\* C12: with no manifest source, a load that is not in strict mode goes on
\* with the default manifest and (there being no validator to fail) returns
\* an Info with project unknown 0.0.0-dev and four empty dimension maps; in
\* strict mode the load fails.
C12_DefaultsWhenAbsent ==
    /\ (SourceAbsent /\ ~run.options.strictMode /\ run.pc = "manifest")
          => run.manifest = defaultManifest
    /\ (SourceAbsent /\ ~run.options.strictMode /\ run.pc = "done"
          /\ run.options.validators = <<>>)
          => /\ Loaded
             /\ run.info.Project = [Name |-> "unknown", Version |-> "0.0.0-dev"]
             /\ DOMAIN run.info.schemas = {}
             /\ DOMAIN run.info.apis = {}
             /\ DOMAIN run.info.components = {}
             /\ DOMAIN run.info.custom = {}
    /\ (SourceAbsent /\ run.options.strictMode /\ run.pc \notin {"options", "load", "loaded"})
          => LoadFailed /\ run.info = NilInfo

\* A load without strict mode named a file that is not there, and returned
\* the defaults.
C12_Witness ==
    /\ Loaded
    /\ ~run.options.strictMode
    /\ run.options.manifestPath = "app.yaml"
    /\ run.reads = <<"app.yaml">>
    /\ "app.yaml" \notin DOMAIN env.fs
    /\ run.info.Project.Name = "unknown"

\* C13: a manifest source that is present but broken fails the load in
\* strict mode and outside it; the defaults are used only when the source
\* is absent.
C13_BrokenSourceFails ==
    /\ (SourceBroken /\ run.pc \notin {"options", "load", "loaded"})
          => LoadFailed /\ run.info = NilInfo
    /\ (run.pc \notin {"options", "load", "loaded"} /\ run.manifest = defaultManifest)
          => SourceAbsent /\ ~run.options.strictMode

\* A load without strict mode read a file whose manifest has no project
\* version, and failed with that error.
C13_Witness ==
    /\ LoadFailed
    /\ ~run.options.strictMode
    /\ run.reads = <<"app.yaml">>
    /\ env.fs["app.yaml"].data = DocNoVersion
    /\ run.err.cause[1].msg = "project version is required in manifest"

\* C14: the manifest {manifest_version: "1.0", project: {name: "svc",
\* version: "1.2.3"}, schemas: {db: "47"}}, its schema section under the
\* key schemas, loaded with the validator min_schema("db", "45"): the load
\* succeeds and GetSchemaVersion("db") is ("47", true).
C14_LowercaseSectionsLoaded ==
    (/\ run.pc = "done"
     /\ run.options.manifestEmbed = SvcDoc([schemas |-> [db |-> <<"4", "7">>]])
     /\ run.options.validators = <<MinSchema("db", <<"4", "5">>)>>)
        => /\ Loaded
           /\ GetVersion(run.info, "schema", "db") = [v |-> <<"4", "7">>, ok |-> TRUE]

\* The step of the run is a call of a built-in minimum-version validator.
BuiltinValidatorStep ==
    /\ run.pc = "validate"
    /\ run'.invoked # run.invoked
    /\ NextValidator.dimensionType # "func"

\* What the validator called in this step returned.
ValidatorOutcome == IF run'.pc = "done" THEN run'.err.cause[1] ELSE NoError

\* The dimension map of info a validator of the given dimension looks into.
DimensionMap(i, dimensionType) ==
    CASE dimensionType = "schema" -> i.schemas
      [] dimensionType = "API" -> i.apis
      [] dimensionType = "component" -> i.components

TooOld(err) == err.msg = "version is less than required minimum"

V123 == <<"1", ".", "2", ".", "3">>

\* C15: a minimum-version validator returns the too-old error, carrying the
\* item's name, its actual version and the minimum, exactly when the item
\* is in its dimension map, both version strings parse and the actual one
\* compares below the minimum; it returns nil when the actual version
\* compares equal or above.  1.2.3 against 1.2.3 passes, 1.2.3+b against
\* 1.2.3+c passes, 1.2.3-a against 1.2.3 is too old.
C15_TooOldIffLess ==
    [][BuiltinValidatorStep =>
         LET v == NextValidator
             m == DimensionMap(run.info, v.dimensionType)
             comparable == /\ v.name \in DOMAIN m
                           /\ Parse(m[v.name]).ok
                           /\ Parse(v.minVersion).ok
         IN /\ TooOld(ValidatorOutcome)
                 <=> (comparable /\ Compare(Parse(m[v.name]), Parse(v.minVersion)) < 0)
            /\ TooOld(ValidatorOutcome)
                 => /\ ValidatorOutcome.category = v.dimensionType
                    /\ ValidatorOutcome.args = << <<v.name>>, m[v.name], v.minVersion >>
            /\ (comparable /\ Compare(Parse(m[v.name]), Parse(v.minVersion)) >= 0)
                 => ValidatorOutcome = NoError /\ run'.info = run.info
            /\ (v.name \in DOMAIN m /\ m[v.name] = v.minVersion /\ Parse(v.minVersion).ok)
                 => ValidatorOutcome = NoError
            /\ (v.name \in DOMAIN m /\ m[v.name] = V123 \o <<"+", "b">>
                    /\ v.minVersion = V123 \o <<"+", "c">>)
                 => ValidatorOutcome = NoError
            /\ (v.name \in DOMAIN m /\ m[v.name] = V123 \o <<"-", "a">> /\ v.minVersion = V123)
                 => TooOld(ValidatorOutcome)]_vars

\* Schema db at 1.2.3-a was checked against the minimum 1.2.3 and the load
\* failed with the too-old error.
C15_Witness ==
    /\ LoadFailed
    /\ run.manifest.Schemas = [db |-> V123 \o <<"-", "a">>]
    /\ run.invoked = <<MinSchema("db", V123)>>
    /\ TooOld(run.err.cause[1])

\* C16: when the item's key is not in its dimension map (the map itself
\* may be missing), a minimum-version validator returns the not-found
\* error, of the validator's dimension and carrying the item's name, and
\* neither the too-old nor a parse error, whatever the minimum string is.
C16_AbsentIsNotFound ==
    [][(BuiltinValidatorStep
          /\ NextValidator.name \notin DOMAIN DimensionMap(run.info, NextValidator.dimensionType))
         => /\ ValidatorOutcome.msg = "not found in manifest"
            /\ ValidatorOutcome.category = NextValidator.dimensionType
            /\ ValidatorOutcome.args = << <<NextValidator.name>> >>
            /\ run'.info = NilInfo]_vars

\* A manifest without a schemas section was checked for schema db against
\* a minimum that is not a version, and the load failed with the not-found
\* error.
C16_Witness ==
    /\ LoadFailed
    /\ run.manifest.Schemas = NilMap
    /\ run.invoked = <<MinSchema("db", <<"x">>)>>
    /\ run.err.cause[1].msg = "not found in manifest"

\* The validators passed to the load, in the order they were passed, over
\* all the WithValidators options of the option list.
RECURSIVE PassedValidators(_)
PassedValidators(opts) ==
    IF opts = <<>> THEN <<>>
    ELSE (IF Head(opts).name = "WithValidators" THEN Head(opts).arg ELSE <<>>)
         \o PassedValidators(Tail(opts))

\* C17: the validators are called one at a time in the order they were
\* passed over all WithValidators options: each call is that of the
\* validator following the ones called so far, made after all of those
\* returned nil.  When a validator returns an error the run ends at once
\* with no Info and with that error wrapped, so no later validator is
\* called; the run returns an Info only after every validator was called.
C17_ValidatorsInOrder ==
    [][/\ run'.invoked # run.invoked
          => LET k == Len(run.invoked) + 1
                 v == PassedValidators(run.opts)[k]
             IN /\ k <= Len(PassedValidators(run.opts))
                /\ run'.invoked = Append(run.invoked, v)
                /\ \A i \in 1..(k - 1) : ValidatorValidate(run.invoked[i], run.info) = NoError
                /\ ValidatorValidate(v, run.info) # NoError
                     => /\ run'.pc = "done"
                        /\ run'.info = NilInfo
                        /\ run'.err.category = "validation"
                        /\ run'.err.cause = <<ValidatorValidate(v, run.info)>>
                /\ ValidatorValidate(v, run.info) = NoError
                     => run'.pc = "validate" /\ run'.info = run.info /\ run'.err = NoError
       /\ run.pc = "done" => run'.invoked = run.invoked
       /\ (run'.pc = "done" /\ run'.err = NoError)
             => run'.invoked = PassedValidators(run.opts)]_vars

\* Two WithValidators options were passed; the validator of the first one
\* failed, and the run ended without calling the validator of the second.
C17_Witness ==
    /\ LoadFailed
    /\ PassedValidators(run.opts) = <<MinSchema("db", <<"5", "0">>), MinSchema("db", <<"4", "5">>)>>
    /\ Len(run.opts) = 3
    /\ run.invoked = <<MinSchema("db", <<"5", "0">>)>>
    /\ TooOld(run.err.cause[1])

\* The step of the run is one of the three sources of the git pass.
GitStep == run.pc \in {"ldflags", "buildinfo", "gitcommand"}

\* The git pass of the run is over and the Info has not been handed to the
\* validators' verdict yet.
GitPassDone == run.options.includeGit /\ run.pc \in {"build", "validate"}

\* The defaults of the git fields.
DefaultGit ==
    [Commit |-> DefaultGitCommit, Tag |-> <<>>, TreeState |-> DefaultGitTreeState,
     CommitTime |-> ""]

\* debug.ReadBuildInfo reports local modifications.
ReportsModified ==
    /\ env.buildInfoOK
    /\ \E i \in 1..Len(env.buildSettings) :
          env.buildSettings[i] = [Key |-> VCSKeyModified, Value |-> VCSValueTrue]

MaxMaps == 2

\* The manifest the Info was loaded from: a schema, an API, no components,
\* and a custom section with a scalar and a nested mapping (at address 1).
DocCustom ==
    SvcDoc([Schemas |-> [db |-> <<"1", "0">>],
            APIs |-> [rest |-> <<"1">>],
            Custom |-> [feature |-> Scalar("enabled"), meta |-> Ref(1)]])

\* The JSON documents UnmarshalJSON is given: [ok, top].
JSONDocs ==
    {[ok |-> FALSE, top |-> <<>>],
     [ok |-> TRUE, top |-> [project |-> [name |-> "other", version |-> "9.9.9"],
                            git |-> [commit |-> <<"a", "b", "c">>, tree_state |-> "dirty"],
                            schemas |-> [db |-> <<"1">>]]],
     [ok |-> TRUE, top |-> <<>>]}

\* (*Info).GetSchemas / GetAPIs / GetComponents / GetCustom: nil for a nil
\* map, otherwise a new map with every key and value of the field copied.
GetMap(i, g) ==
    LET field == CASE g = "GetSchemas" -> i.schemas
                   [] g = "GetAPIs" -> i.apis
                   [] g = "GetComponents" -> i.components
                   [] g = "GetCustom" -> i.custom
    IN [getter |-> g, nil |-> (DOMAIN field = {}), m |-> [k \in DOMAIN field |-> field[k]]]

\* (*Info).String
String(i) == <<i.Project.Name, " ", i.Project.Version, " (", i.Git.Commit, ")">>

\* (*Info).UnmarshalJSON: json.Unmarshal(data, &temp) under the json tags of
\* jsonInfo, ProjectVersion, GitInfo and BuildInfo, then the assignments of
\* temp's fields to the receiver's.
UnmarshalJSON(i, data) ==
    LET project == Field(data.top, "project", <<>>)
        git == Field(data.top, "git", <<>>)
        build == Field(data.top, "build", <<>>)
    IN IF ~data.ok THEN i
       ELSE [i EXCEPT
               !.Project = [Name |-> Field(project, "name", ""),
                            Version |-> Field(project, "version", "")],
               !.Git = [Commit |-> Field(git, "commit", <<>>), Tag |-> Field(git, "tag", <<>>),
                        TreeState |-> Field(git, "tree_state", ""),
                        CommitTime |-> Field(git, "commit_time", "")],
               !.Build = [Time |-> Field(build, "time", ""), User |-> Field(build, "user", ""),
                          GoVersion |-> Field(build, "go_version", "")],
               !.schemas = Field(data.top, "schemas", NilMap),
               !.apis = Field(data.top, "apis", NilMap),
               !.components = Field(data.top, "components", NilMap),
               !.custom = Field(data.top, "custom", NilMap)]

\* The Info has been loaded from DocCustom, validated and returned.
InitInfo ==
    /\ InitSingleton
    /\ run = NoRun
    /\ sem = NoSem
    /\ web = NoWeb
    /\ env = BaseEnv
    /\ obj = [pc |-> "live",
              info |-> loadVersionInfo(
                           WithValidators(WithEmbedded(defaultLoadOptions, DocCustom),
                                          <<MinSchema("db", <<"5">>)>>),
                           BaseEnv, RunClock).info,
              values |-> <<[owner |-> "a"]>>,
              maps |-> <<>>,
              last |-> [op |-> "none"]]

\* A caller calls one of the three getters of a string map.
GetStringMap ==
    /\ obj.pc = "live"
    /\ Len(obj.maps) < MaxMaps
    /\ \E g \in {"GetSchemas", "GetAPIs", "GetComponents"} :
          obj' = [obj EXCEPT !.maps = Append(@, GetMap(obj.info, g)),
                             !.last = [op |-> g, map |-> Len(obj.maps) + 1]]
    /\ UNCHANGED <<svars, run, sem, web, env>>

\* A caller calls GetCustom.
GetCustom ==
    /\ obj.pc = "live"
    /\ Len(obj.maps) < MaxMaps
    /\ obj' = [obj EXCEPT !.maps = Append(@, GetMap(obj.info, "GetCustom")),
                          !.last = [op |-> "GetCustom", map |-> Len(obj.maps) + 1]]
    /\ UNCHANGED <<svars, run, sem, web, env>>

\* A caller calls a single-key getter or String.
Accessor ==
    /\ obj.pc = "live"
    /\ \/ \E d \in {"schema", "API", "component"}, name \in {"db", "rest", "newkey"} :
             obj' = [obj EXCEPT !.last = [op |-> "GetVersion", dimension |-> d, name |-> name,
                                          result |-> GetVersion(obj.info, d, name)]]
       \/ obj' = [obj EXCEPT !.last = [op |-> "String", result |-> String(obj.info)]]
    /\ UNCHANGED <<svars, run, sem, web, env>>

\* A caller writes to a map a getter returned: m[k] = v for a key of the map
\* or a new one (a nil map cannot be assigned to), or delete(m, k).
MutateMap ==
    /\ obj.pc = "live"
    /\ \E j \in 1..Len(obj.maps) :
          LET r == obj.maps[j]
              v == IF r.getter = "GetCustom" THEN Scalar("changed") ELSE <<"9", "9", "9">>
          IN \/ /\ ~r.nil
                /\ \E k \in DOMAIN r.m \cup {"newkey"} :
                      obj' = [obj EXCEPT !.maps[j].m = [x \in DOMAIN r.m \cup {k} |->
                                                           IF x = k THEN v ELSE r.m[x]],
                                         !.last = [op |-> "mutate", map |-> j]]
             \/ \E k \in DOMAIN r.m :
                   obj' = [obj EXCEPT !.maps[j].m = [x \in DOMAIN r.m \ {k} |-> r.m[x]],
                                      !.last = [op |-> "mutate", map |-> j]]
    /\ UNCHANGED <<svars, run, sem, web, env>>

\* A caller writes to a structured value it reached through a map GetCustom
\* returned: m[k].(map[string]interface{})["owner"] = "z".
MutateNested ==
    /\ obj.pc = "live"
    /\ \E j \in 1..Len(obj.maps) :
          \E k \in DOMAIN obj.maps[j].m :
             /\ obj.maps[j].getter = "GetCustom"
             /\ obj.maps[j].m[k].kind = "map"
             /\ obj' = [obj EXCEPT !.values[obj.maps[j].m[k].ref].owner = "z",
                                   !.last = [op |-> "mutate", map |-> j]]
    /\ UNCHANGED <<svars, run, sem, web, env>>

\* A caller unmarshals JSON into the Info: json.Unmarshal(data, info).
UnmarshalInto ==
    /\ obj.pc = "live"
    /\ \E data \in JSONDocs :
          obj' = [obj EXCEPT !.info = UnmarshalJSON(@, data),
                             !.last = [op |-> "UnmarshalJSON", ok |-> data.ok]]
    /\ UNCHANGED <<svars, run, sem, web, env>>

NextInfo ==
    \/ GetStringMap
    \/ GetCustom
    \/ Accessor
    \/ MutateMap
    \/ MutateNested
    \/ UnmarshalInto

SpecInfo == InitInfo /\ [][NextInfo]_vars

\* What a caller sees in a map a getter returned: its keys, and for each
\* key its scalar, or the contents of the structured value it refers to in
\* the given heap of values.
Contents(r, values) ==
    IF r.getter # "GetCustom" THEN r.m
    ELSE [k \in DOMAIN r.m |->
            IF r.m[k].kind = "map" THEN values[r.m[k].ref] ELSE r.m[k].v]

\* What the four map getters and the single-key getters of the Info would
\* return, were they called in the state o of the Info and the heap.
Observable(o) ==
    [maps |-> [g \in {"GetSchemas", "GetAPIs", "GetComponents", "GetCustom"} |->
                  Contents(GetMap(o.info, g), o.values)],
     keys |-> [d \in {"schema", "API", "component"} |->
                  [name \in {"db", "rest", "newkey"} |-> GetVersion(o.info, d, name)]]]

\* The step is a caller's write through the map obj.maps[j].
WritesThrough(j) ==
    /\ obj'.last = [op |-> "mutate", map |-> j]
    /\ obj'.info = obj.info
    /\ Len(obj'.maps) = Len(obj.maps)
    /\ obj'.maps # obj.maps \/ obj'.values # obj.values

\* C18: a map getter returns a map equal to the Info's, and whatever a
\* caller then does through a returned map (adding, changing or deleting a
\* key, or changing a structured value reached through a GetCustom result)
\* changes neither any other returned map, nor what a further call of a
\* map getter or of a single-key getter returns.
C18_ReturnedMapsAreIndependent ==
    [][/\ Len(obj'.maps) = Len(obj.maps) + 1
          => Contents(obj'.maps[Len(obj'.maps)], obj'.values)
                = Observable(obj).maps[obj'.last.op]
       /\ \A j \in 1..Len(obj.maps) :
             WritesThrough(j)
                => /\ \A i \in 1..Len(obj.maps) \ {j} :
                         Contents(obj'.maps[i], obj'.values) = Contents(obj.maps[i], obj.values)
                   /\ Observable(obj') = Observable(obj)]_vars

\* The step is a call of a method of the Info, not a caller's write.
MethodCall ==
    /\ obj.pc = "live"
    /\ obj'.values = obj.values
    /\ SubSeq(obj'.maps, 1, Len(obj.maps)) = obj.maps

\* C19: no method of a loaded, validated and returned Info (the accessors,
\* String, the JSON methods) changes any of its fields.
C19_InfoNeverChanges ==
    [][MethodCall => obj'.info = obj.info]_vars

\* The options of the run with both enrichment passes disabled.
WithoutEnrichment == WithoutBuildInfo(WithoutGitInfo(run.options))

\* C21 as claimed: whatever the sources of the enrichment report, a load
\* returns an error if and only if the same load with both enrichment
\* passes disabled returns an error.
C21_ErrorIffErrorWithoutEnrichment ==
    run.pc = "done"
       => (run.err # NoError
             <=> loadVersionInfo(WithoutEnrichment, env, RunClock).err # NoError)

\* The validator reads no git or build field of the Info.
IgnoresProvenance(v) == v.dimensionType # "func" \/ v.name = "noDevVersion"

\* The git command supplies a commit: git is found, in a trusted location
\* (or on Windows), rev-parse exits with 0 in time, and prints a hash.
CommandSuppliesCommit ==
    /\ env.lookPath.ok
    /\ env.goos = "windows" \/ env.lookPath.path \in SafeLocations
    /\ env.revParse.ok
    /\ isValidCommitHash(TrimSpace(env.revParse.out))

\* The git command supplies a tag.
CommandSuppliesTag ==
    /\ env.lookPath.ok
    /\ env.goos = "windows" \/ env.lookPath.path \in SafeLocations
    /\ env.describe.ok
    /\ TrimSpace(env.describe.out) # <<>>

\* debug.ReadBuildInfo has a setting with the given key.
BuildInfoHas(key) ==
    /\ env.buildInfoOK
    /\ \E i \in 1..Len(env.buildSettings) : env.buildSettings[i].Key = key

\* C21: no step of the two enrichment passes ends the run or sets an
\* error, whatever its sources report.  A load whose validators read no git
\* or build field returns an error if and only if the same load with both
\* passes disabled does; a validator that reads such a field may pass or
\* fail according to what enrichment found.  After the passes every field
\* no source supplied is at its default.
C21_EnrichmentNeverFails ==
    [][/\ run.pc \in {"ldflags", "buildinfo", "gitcommand", "build"}
          => /\ run'.err = NoError
             /\ run'.pc \in {"buildinfo", "gitcommand", "build", "validate"}
             /\ run'.info # NilInfo
       /\ (run'.pc = "done" /\ \A i \in 1..Len(run.options.validators) :
                                  IgnoresProvenance(run.options.validators[i]))
          => (run'.err # NoError
                <=> loadVersionInfo(WithoutEnrichment, env, RunClock).err # NoError)
       /\ (run.pc = "gitcommand" /\ run'.pc \in {"build", "validate"})
          => /\ (/\ env.GitCommit = DefaultGitCommit
                 /\ ~BuildInfoHas(VCSKeyRevision)
                 /\ ~CommandSuppliesCommit)
                => run'.info.Git.Commit = DefaultGitCommit
             /\ (env.GitTag = <<>> /\ ~CommandSuppliesTag) => run'.info.Git.Tag = <<>>
             /\ (env.GitTreeState = DefaultGitTreeState /\ ~BuildInfoHas(VCSKeyModified))
                => run'.info.Git.TreeState = DefaultGitTreeState
             /\ ~BuildInfoHas(VCSKeyTime) => run'.info.Git.CommitTime = ""
       /\ (run.pc = "build" /\ run'.pc = "validate")
          => /\ env.BuildTime = DefaultBuildTime => run'.info.Build.Time = DefaultBuildTime
             /\ env.BuildUser = DefaultBuildUser => run'.info.Build.User = DefaultBuildUser]_vars

\* Nothing was injected, build info is unavailable and git sits in an
\* untrusted location: the load succeeded and the commit is the default.
C21_Witness ==
    /\ Loaded
    /\ run.options.includeGit /\ run.options.includeBuild
    /\ env.GitCommit = DefaultGitCommit
    /\ ~env.buildInfoOK
    /\ env.lookPath = [ok |-> TRUE, path |-> "/tmp/git"]
    /\ env.revParse.ok
    /\ run.info.Git.Commit = DefaultGitCommit
    /\ run.info.Git.Tag = <<>>

InvalidActual(err) == err.msg = "invalid version"

InvalidMinimum(err) == err.msg = "invalid minimum version for validator"

NotFound(err) == err.msg = "not found in manifest"

\* C30: when the item is in its dimension map and its actual version or
\* the validator's minimum does not parse, a minimum-version validator
\* returns an invalid-version failure, which is neither the too-old nor the
\* not-found failure: the one for the actual version, carrying that string
\* and the item's name, when the actual version does not parse (the minimum
\* may be unparsable too), and the one for the minimum, carrying the
\* minimum string, when only the minimum does not parse.  No other call
\* returns an invalid-version failure.
C30_UnparsableIsInvalidVersion ==
    [][BuiltinValidatorStep =>
         LET v == NextValidator
             m == DimensionMap(run.info, v.dimensionType)
             present == v.name \in DOMAIN m
         IN /\ (present /\ ~Parse(m[v.name]).ok)
                 => /\ InvalidActual(ValidatorOutcome)
                    /\ ValidatorOutcome.category = v.dimensionType
                    /\ ValidatorOutcome.args = <<m[v.name], <<v.name>> >>
            /\ (present /\ Parse(m[v.name]).ok /\ ~Parse(v.minVersion).ok)
                 => /\ InvalidMinimum(ValidatorOutcome)
                    /\ ValidatorOutcome.args = <<v.minVersion>>
            /\ (InvalidActual(ValidatorOutcome) \/ InvalidMinimum(ValidatorOutcome))
                 => /\ present
                    /\ ~Parse(m[v.name]).ok \/ ~Parse(v.minVersion).ok
                    /\ ~TooOld(ValidatorOutcome)
                    /\ ~NotFound(ValidatorOutcome)
                    /\ ValidatorOutcome # NoError
                    /\ run'.pc = "done"]_vars

\* Schema db at x was checked against the minimum x: the load failed with
\* the invalid-version failure for the actual version.
C30_Witness ==
    /\ LoadFailed
    /\ run.manifest.Schemas = [db |-> <<"x">>]
    /\ run.invoked = <<MinSchema("db", <<"x">>)>>
    /\ InvalidActual(run.err.cause[1])

\* The place of each step of a load in the pipeline.
Stage(p) ==
    CASE p \in {"options", "load", "loaded"} -> 1
      [] p = "manifest" -> 2
      [] p \in {"ldflags", "buildinfo", "gitcommand"} -> 3
      [] p = "build" -> 4
      [] p = "validate" -> 5
      [] p = "done" -> 6
      [] p = "published" -> 7

\* C29: a load goes through its stages in the order resolve manifest,
\* construct Info, git enrichment, build enrichment, validators, publish,
\* and never back.  The Info is written in the construction and
\* enrichment stages only: every validator is handed the Info as the
\* enrichment passes the options enable left it, and nothing changes it
\* once the validator stage is entered.  The singleton's instance is stored
\* only after the load returned without error, that is after the last of
\* the validators passed, and it is that Info.
C29_StagesInOrder ==
    [][/\ Stage(run'.pc) >= Stage(run.pc)
       /\ Stage(run'.pc) = Stage(run.pc) => run.pc \in {"options", "load", "ldflags",
                                                       "buildinfo", "validate"}
       /\ run'.info # run.info
            => \/ Stage(run.pc) \in {2, 3, 4}
               \/ run.pc = "validate" /\ run'.pc = "done" /\ run'.info = NilInfo
       /\ run'.invoked # run.invoked
            => /\ run.pc = "validate"
               /\ run.info = loadVersionInfo([run.options EXCEPT !.validators = <<>>],
                                             env, RunClock).info
       /\ instance' # instance
            => /\ run.pc = "done" /\ run'.pc = "published"
               /\ run.err = NoError
               /\ run.invoked = run.options.validators
               /\ \A i \in 1..Len(run.invoked) : ValidatorValidate(run.invoked[i], run.info) = NoError
               /\ instance'.stored /\ heap'[instance'.ptr] = run.info
       /\ (run.pc = "done" /\ run.err # NoError) => instance' = instance /\ initError' = run.err]_vars

\* A load with git and build enrichment and two validators was published.
C29_Witness ==
    /\ run.pc = "published"
    /\ run.options.includeGit /\ run.options.includeBuild
    /\ Len(run.invoked) = 2
    /\ instance.stored /\ heap[instance.ptr] = run.info
    /\ initError = NoError

\* Goroutine t's call of Initialize, Get or MustGet began before the first
\* initialization was over, and returns in this step.
EarlyCallReturns(t) ==
    /\ Returns(t)
    /\ call'[t].op \in {"Initialize", "Get", "MustGet"}
    /\ call'[t].state \in {"Uninitialized", "Initializing"}

\* C28: a call of Initialize or Get that began while the singleton was
\* uninitialized or its first initialization was in flight returns only
\* after the one run of the pipeline is over, and reports that run: a Get
\* returns the published instance if the run succeeded and the stored
\* error if it failed, never ErrNotInitialized; an Initialize returns the
\* run's result if it ran the pipeline itself and the already-called error
\* otherwise.
C28_RacersSeeTheOutcome ==
    [][\A t \in Threads :
          EarlyCallReturns(t)
             => /\ bodyRuns = 1
                /\ initError' = initError /\ instance' = instance
                /\ call'[t].op = "Initialize"
                     => ret'[t].err = IF ret'[t].didRun THEN initError ELSE ErrInitializeMultiple
                /\ call'[t].op # "Initialize"
                     => /\ ret'[t].err # ErrNotInitialized
                        /\ IF initError = NoError
                           THEN /\ ret'[t].err = NoError
                                /\ instance.stored /\ instance.ptr # 0
                                /\ ret'[t].info = instance.ptr
                           ELSE /\ ret'[t].err = initError
                                /\ ret'[t].info = 0]_vars

\* A Get that began while an Initialize was running the pipeline returned
\* the error that Initialize stored.
C28_Witness ==
    \E t, u \in Threads :
       /\ t # u
       /\ Returned(t, {"Get"}) /\ call[t].state = "Initializing"
       /\ Returned(u, {"Initialize"}) /\ ret[u].didRun
       /\ initError # NoError
       /\ ret[t].err = initError /\ ret[u].err = initError

(***************************************************************************)
(* internal/semver on its own: two strings are parsed, the versions are    *)
(* compared, the first is printed and the print is parsed again.           *)
(***************************************************************************)
Nines == <<"9", "9", "9", "9", "9", "9", "9", "9", "9", "9">>

\* The strings parsed: the forms Parse documents, partial cores, the v
\* prefix, strings Parse rejects, and a major too large for an int.
SemverStrings ==
    {V123,
     V123 \o <<"-", "a", "l", "p", "h", "a">>,
     V123 \o <<"+", "b", "u", "i", "l", "d">>,
     V123 \o <<"-", "b", "e", "t", "a", ".", "1", "+", "b", "u", "i", "l", "d", ".", "1", "2", "3">>,
     <<"2">>,
     <<"2", ".", "1">>,
     <<"v">> \o V123,
     <<>>,
     <<"v">>,
     V123 \o <<".", "4">>,
     <<"1", ".", "x">>,
     <<"1", ".", ".", "3">>,
     <<"-", "1", ".", "2">>,
     <<"0", "1", ".", "2", ".", "3">>,
     <<"1", ".", "1", "0", ".", "0">>,
     <<"1", ".", "9", ".", "0">>,
     V123 \o <<"-", "a", ".", "1", "0">>,
     V123 \o <<"-", "a", ".", "2">>,
     Nines \o Nines}

\* Numbers written without leading zeros: small ones, the largest int32, and
\* two that are above the largest int (1<<63 and twenty nines).
CanonicalNumbers ==
    {<<"0">>, <<"7">>, <<"1", "0">>,
     <<"2", "1", "4", "7", "4", "8", "3", "6", "4", "7">>,
     SubSeq(MaxIntDigits, 1, 18) \o <<"8">>,
     Nines \o Nines}

\* Strings of the form MAJOR.MINOR.PATCH[-PRERELEASE][+BUILD], with all
\* three numbers present, and the same behind a v.
CanonicalStrings ==
    {v \o major \o <<".">> \o minor \o <<".">> \o patch \o pre \o build :
        v \in {<<>>, <<"v">>},
        major \in CanonicalNumbers,
        minor \in {<<"0">>, <<"1", "0">>},
        patch \in {<<"0">>, <<"7">>, Nines \o Nines},
        pre \in {<<>>, <<"-", "a", "l", "p", "h", "a">>, <<"-", "a", "-", "b">>,
                 <<"-", "0", ".", "3", ".", "7">>},
        build \in {<<>>, <<"+", "b", "u", "i", "l", "d", ".", "1", "2", "3">>,
                   <<"+", "b", "-", "c">>, <<"+", "a", "+", "b">>}}

InitSemver ==
    /\ InitSingleton
    /\ run = NoRun
    /\ obj = NoObj
    /\ web = NoWeb
    /\ env = BaseEnv
    /\ \E a \in SemverStrings \cup CanonicalStrings,
          b \in SemverStrings :
          /\ a \in CanonicalStrings => b = V123
          /\ sem = [pc |-> "start", a |-> a, b |-> b, va |-> NoVersion, vb |-> NoVersion,
                    cmp |-> 0, is |-> <<>>, str |-> <<>>, back |-> NoVersion]

\* va, err := Parse(a); vb, err := Parse(b)
SemParse ==
    /\ sem.pc = "start"
    /\ sem' = [sem EXCEPT !.pc = "parsed", !.va = Parse(sem.a), !.vb = Parse(sem.b)]
    /\ UNCHANGED <<svars, run, obj, web, env>>

\* va.Compare(vb), and the five predicates on the same pair
SemCompare ==
    /\ sem.pc = "parsed"
    /\ sem.va.ok /\ sem.vb.ok
    /\ sem' = [sem EXCEPT !.pc = "compared", !.cmp = Compare(sem.va, sem.vb),
                          !.is = [LessThan |-> LessThan(sem.va, sem.vb),
                                  GreaterThan |-> GreaterThan(sem.va, sem.vb),
                                  Equal |-> Equal(sem.va, sem.vb),
                                  GreaterThanOrEqual |-> GreaterThanOrEqual(sem.va, sem.vb),
                                  LessThanOrEqual |-> LessThanOrEqual(sem.va, sem.vb)]]
    /\ UNCHANGED <<svars, run, obj, web, env>>

\* va.String()
SemString ==
    /\ sem.pc \in {"parsed", "compared"}
    /\ sem.va.ok
    /\ sem' = [sem EXCEPT !.pc = "printed", !.str = VersionString(sem.va)]
    /\ UNCHANGED <<svars, run, obj, web, env>>

\* Parse(va.String())
SemReparse ==
    /\ sem.pc = "printed"
    /\ sem' = [sem EXCEPT !.pc = "reparsed", !.back = Parse(sem.str)]
    /\ UNCHANGED <<svars, run, obj, web, env>>

NextSemver == SemParse \/ SemCompare \/ SemString \/ SemReparse

SpecSemver == InitSemver /\ [][NextSemver]_vars

\* The core of a version, as numbers.
CoreLess(v, w) ==
    \/ v.Major < w.Major
    \/ v.Major = w.Major /\ v.Minor < w.Minor
    \/ v.Major = w.Major /\ v.Minor = w.Minor /\ v.Patch < w.Patch

SameCore(v, w) == v.Major = w.Major /\ v.Minor = w.Minor /\ v.Patch = w.Patch

\* C22: Compare returns -1, 0 or 1.  The cores decide, compared as numbers
\* major first, then minor, then patch (1.10.0 is above 1.9.0).  With equal
\* cores a version without prerelease is above one with a prerelease, and
\* two prereleases are compared as plain strings, byte by byte (a.10 is
\* below a.2).  The build metadata never changes the result (1.2.3+build
\* equals 1.2.3).
C22_CompareOrder ==
    sem.pc = "compared" =>
        LET v == sem.va
            w == sem.vb
        IN /\ sem.cmp \in {-1, 0, 1}
           /\ Compare(w, v) = 0 - sem.cmp
           /\ CoreLess(v, w) => sem.cmp = -1
           /\ CoreLess(w, v) => sem.cmp = 1
           /\ (SameCore(v, w) /\ v.Prerelease = <<>> /\ w.Prerelease # <<>>) => sem.cmp = 1
           /\ (SameCore(v, w) /\ v.Prerelease # <<>> /\ w.Prerelease = <<>>) => sem.cmp = -1
           /\ (SameCore(v, w) /\ v.Prerelease # <<>> /\ w.Prerelease # <<>>)
                => sem.cmp = (IF v.Prerelease = w.Prerelease THEN 0
                              ELSE IF StrLess(v.Prerelease, w.Prerelease) THEN -1 ELSE 1)
           /\ (SameCore(v, w) /\ v.Prerelease = w.Prerelease) => sem.cmp = 0
           /\ sem.cmp = Compare([v EXCEPT !.Build = <<>>], [w EXCEPT !.Build = <<"z">>])
           /\ (sem.a = <<"1", ".", "1", "0", ".", "0">> /\ sem.b = <<"1", ".", "9", ".", "0">>)
                => sem.cmp = 1
           /\ (sem.a = V123 \o <<"-", "a", ".", "1", "0">> /\ sem.b = V123 \o <<"-", "a", ".", "2">>)
                => sem.cmp = -1
           /\ (sem.a = V123 \o <<"+", "b", "u", "i", "l", "d">> /\ sem.b = V123) => sem.cmp = 0
           /\ (sem.a = V123 \o <<"-", "a", "l", "p", "h", "a">> /\ sem.b = V123) => sem.cmp = -1

\* 1.2.3-a.10 was compared with 1.2.3-a.2 and found below it.
C22_Witness ==
    /\ sem.pc = "compared"
    /\ sem.a = V123 \o <<"-", "a", ".", "1", "0">>
    /\ sem.b = V123 \o <<"-", "a", ".", "2">>
    /\ sem.cmp = -1

\* The strings C23 names.
RoundTripStrings ==
    {V123,
     V123 \o <<"-", "a", "l", "p", "h", "a">>,
     V123 \o <<"+", "b", "u", "i", "l", "d">>,
     V123 \o <<"-", "b", "e", "t", "a", ".", "1", "+", "b", "u", "i", "l", "d", ".", "1", "2", "3">>,
     <<"2">>,
     <<"2", ".", "1">>}

\* s without one leading v.
AfterV(s) == IF s # <<>> /\ Head(s) = "v" THEN Tail(s) ELSE s

\* C23 as claimed: for each of the six strings, printing the parsed version
\* gives the string back.
C23_PrintIsInput ==
    (sem.pc = "printed" /\ sem.a \in RoundTripStrings) => sem.str = AfterV(sem.a)

\* C23: printing a parsed version always writes the three numbers of the
\* core.  For 1.2.3, 1.2.3-alpha, 1.2.3+build, 1.2.3-beta.1+build.123 (and
\* v1.2.3, less its v) the print is the input; for 2 and 2.1 it is 2.0.0
\* and 2.1.0.  For every string that parses, parsing the print gives the
\* same version again.
C23_RoundTrip ==
    sem.pc = "reparsed" =>
        /\ sem.back = sem.va
        /\ (sem.a \in RoundTripStrings \cup {<<"v">> \o V123}
               /\ sem.a \notin {<<"2">>, <<"2", ".", "1">>})
             => sem.str = AfterV(sem.a)
        /\ sem.a = <<"2">> => sem.str = <<"2", ".", "0", ".", "0">>
        /\ sem.a = <<"2", ".", "1">> => sem.str = <<"2", ".", "1", ".", "0">>

\* 2 was parsed and printed as 2.0.0, which parses to the same version.
C23_Witness ==
    /\ sem.pc = "reparsed"
    /\ sem.a = <<"2">>
    /\ sem.str = <<"2", ".", "0", ".", "0">>
    /\ sem.back = sem.va

\* The part of s before its first + or -.
CoreOf(s) ==
    LET stops == {i \in 1..Len(s) : s[i] \in {"+", "-"}}
    IN IF stops = {} THEN s
       ELSE SubSeq(s, 1, (CHOOSE i \in stops : \A j \in stops : i <= j) - 1)

Segments(s) == Split(CoreOf(AfterV(s)), ".")

\* seg is written as a non-negative integer.
IsNumber(seg) == Len(seg) > 0 /\ \A i \in 1..Len(seg) : seg[i] \in Digits

\* The string is empty after its v, its core has more than three parts,
\* or a part of its core is not a non-negative integer.
Malformed(s) ==
    \/ AfterV(s) = <<>>
    \/ Len(Segments(s)) > 3
    \/ \E i \in 1..Len(Segments(s)) : ~IsNumber(Segments(s)[i])

\* C24 as claimed: Parse fails exactly on the malformed strings.
C24_FailsIffMalformed ==
    sem.pc # "start" => (~sem.va.ok <=> Malformed(sem.a))

\* C24: Parse takes an optional v, then one to three numbers separated by
\* dots, then an optional -prerelease and an optional +build; a missing
\* minor or patch is 0.  It fails exactly when the string is empty after its
\* v, the core has more than three parts, or a part of the core is not a
\* non-negative integer that fits an int.  The numbers of a parsed version
\* are never negative.
C24_ParseGrammar ==
    sem.pc # "start" =>
        LET segs == Segments(sem.a)
            v == sem.va
        IN /\ ~v.ok <=> (Malformed(sem.a) \/ \E i \in 1..Len(segs) : ~FitsInt(segs[i]))
           /\ v.ok => /\ v.Major >= 0 /\ v.Minor >= 0 /\ v.Patch >= 0
                      /\ v.Major = DigitsValue(segs[1])
                      /\ v.Minor = (IF Len(segs) > 1 THEN DigitsValue(segs[2]) ELSE 0)
                      /\ v.Patch = (IF Len(segs) > 2 THEN DigitsValue(segs[3]) ELSE 0)
                      /\ Parse(<<"v">> \o AfterV(sem.a)) = v
           /\ sem.a = <<"2", ".", "1">> => (v.ok /\ v.Major = 2 /\ v.Minor = 1 /\ v.Patch = 0)
           /\ sem.a = <<"v">> \o V123 => v = Parse(V123) /\ v.ok

\* A string of twenty nines, a non-negative integer, was rejected.
C24_Witness ==
    /\ sem.pc = "parsed"
    /\ sem.a = Nines \o Nines
    /\ ~Malformed(sem.a)
    /\ ~sem.va.ok

(***************************************************************************)
(* An Info through json.Marshal and json.Unmarshal.  A Go map field is nil *)
(* or a map, and a map may have no entries: obj.made is the set of map     *)
(* fields of obj.info that are not nil, obj.decodedMade that of            *)
(* obj.decoded.                                                            *)
(***************************************************************************)
MapFields == {"schemas", "apis", "components", "custom"}

\* A field that is never written.
OmitAlways(key, v, empty) == <<>>

\* A struct field under a json tag with omitempty: nothing when the value
\* is empty (the empty string, a nil map or a map without entries).
OmitEmpty(key, v, empty) == IF empty THEN <<>> ELSE [k \in {key} |-> v]

\* (*Info).MarshalJSON: json.Marshal of jsonInfo under its json tags and
\* those of ProjectVersion, GitInfo and BuildInfo.
MarshalJSON(i) ==
    [ok |-> TRUE,
     top |-> [project |-> [name |-> i.Project.Name, version |-> i.Project.Version],
              git |-> [commit |-> i.Git.Commit, tree_state |-> i.Git.TreeState]
                        @@ OmitEmpty("tag", i.Git.Tag, i.Git.Tag = <<>>)
                        @@ OmitEmpty("commit_time", i.Git.CommitTime, i.Git.CommitTime = ""),
              build |-> [time |-> i.Build.Time, go_version |-> i.Build.GoVersion]
                        @@ OmitEmpty("user", i.Build.User, i.Build.User = "")]
             @@ OmitEmpty("schemas", i.schemas, DOMAIN i.schemas = {})
             @@ OmitEmpty("apis", i.apis, DOMAIN i.apis = {})
             @@ OmitEmpty("components", i.components, DOMAIN i.components = {})
             @@ OmitEmpty("custom", i.custom, DOMAIN i.custom = {})]

\* var decoded Info
ZeroInfo ==
    [Project |-> [Name |-> "", Version |-> ""],
     Git |-> [Commit |-> <<>>, Tag |-> <<>>, TreeState |-> "", CommitTime |-> ""],
     Build |-> [Time |-> "", User |-> "", GoVersion |-> ""],
     schemas |-> NilMap, apis |-> NilMap, components |-> NilMap, custom |-> NilMap,
     loadedAt |-> 0]

\* manifestToInfo makes a map for each section the manifest has, whether
\* or not the section has entries.
MadeByManifest(doc) ==
    {f \in MapFields :
        \/ f = "schemas" /\ "Schemas" \in DOMAIN doc.top
        \/ f = "apis" /\ "APIs" \in DOMAIN doc.top
        \/ f = "components" /\ "Components" \in DOMAIN doc.top
        \/ f = "custom" /\ "Custom" \in DOMAIN doc.top}

\* json.Unmarshal makes a map for each object the document has.
MadeByJSON(data) == {f \in MapFields : f \in DOMAIN data.top}

\* Manifests with each section absent, empty or with an entry.
JSONManifests ==
    {SvcDoc(a @@ b @@ c @@ d) :
        a \in {<<>>, [Schemas |-> <<>>], [Schemas |-> [db |-> <<"4", "7">>]]},
        b \in {<<>>, [APIs |-> <<>>], [APIs |-> [rest |-> <<"1">>]]},
        c \in {<<>>, [Components |-> [chat |-> <<"3">>]]},
        d \in {<<>>, [Custom |-> [feature |-> Scalar("enabled")]]}}

\* Processes with nothing injected, and with git and build values injected.
JSONEnvs ==
    {BaseEnv,
     [BaseEnv EXCEPT !.GitCommit = Chars("a", "b", "c", "1", "2", "3", "4"),
                     !.GitTag = <<"v", "1">>],
     [BaseEnv EXCEPT !.BuildTime = "2025-10-11T12:00:00Z", !.BuildUser = "jenkins",
                     !.buildSettings = <<[Key |-> VCSKeyTime, Value |-> "2025-10-11T10:00:00Z"]>>]}

InitJSON ==
    /\ InitSingleton
    /\ run = NoRun
    /\ sem = NoSem
    /\ web = NoWeb
    /\ env \in JSONEnvs
    /\ \E doc \in JSONManifests :
          obj = [pc |-> "original",
                 info |-> loadVersionInfo(WithEmbedded(defaultLoadOptions, doc), env, RunClock).info,
                 made |-> MadeByManifest(doc),
                 data |-> [ok |-> FALSE, top |-> <<>>],
                 decoded |-> ZeroInfo,
                 decodedMade |-> {}]

\* data, err := json.Marshal(original)
MarshalInfo ==
    /\ obj.pc = "original"
    /\ obj' = [obj EXCEPT !.pc = "marshalled", !.data = MarshalJSON(obj.info)]
    /\ UNCHANGED <<svars, run, sem, web, env>>

\* var decoded Info; err = json.Unmarshal(data, &decoded)
UnmarshalNew ==
    /\ obj.pc = "marshalled"
    /\ obj' = [obj EXCEPT !.pc = "decoded",
                          !.decoded = UnmarshalJSON(ZeroInfo, obj.data),
                          !.decodedMade = MadeByJSON(obj.data)]
    /\ UNCHANGED <<svars, run, sem, web, env>>

NextJSON == MarshalInfo \/ UnmarshalNew

SpecJSON == InitJSON /\ [][NextJSON]_vars

\* What a getter returns for an Info whose non-nil map fields are made: nil
\* for a nil map, else a copy, which has no entries if the map has none.
Got(i, made, g) ==
    [GetMap(i, g) EXCEPT
        !.nil = (CASE g = "GetSchemas" -> "schemas" \notin made
                   [] g = "GetAPIs" -> "apis" \notin made
                   [] g = "GetComponents" -> "components" \notin made)]

StringMapGetters == {"GetSchemas", "GetAPIs", "GetComponents"}

\* C25 as claimed: for every Info the decoded Info has equal Project, Git
\* and Build and its three getters return equal values.
C25_DecodedEqualsOriginal ==
    obj.pc = "decoded" =>
        /\ obj.decoded.Project = obj.info.Project
        /\ obj.decoded.Git = obj.info.Git
        /\ obj.decoded.Build = obj.info.Build
        /\ \A g \in StringMapGetters :
              Got(obj.decoded, obj.decodedMade, g) = Got(obj.info, obj.made, g)

\* C25: marshalling an Info and unmarshalling the JSON into a new Info
\* gives equal Project, Git and Build, and GetSchemas, GetAPIs and
\* GetComponents return maps with the same entries as before; a map without
\* entries is not written and comes back as nil, so its getter returns nil
\* where it returned an empty map.  The load time is not in the JSON and
\* the decoded Info has the zero time.
C25_RoundTripKeepsEntries ==
    obj.pc = "decoded" =>
        /\ obj.data.ok
        /\ obj.decoded.Project = obj.info.Project
        /\ obj.decoded.Git = obj.info.Git
        /\ obj.decoded.Build = obj.info.Build
        /\ \A g \in StringMapGetters :
              /\ Got(obj.decoded, obj.decodedMade, g).m = Got(obj.info, obj.made, g).m
              /\ Got(obj.decoded, obj.decodedMade, g).nil
                    <=> DOMAIN Got(obj.info, obj.made, g).m = {}
        /\ DOMAIN obj.data.top \subseteq {"project", "git", "build"} \cup MapFields
        /\ obj.info.loadedAt = RunClock
        /\ obj.decoded.loadedAt = ZeroInfo.loadedAt

\* An Info with an injected commit and tag, a schema, and an API map without
\* entries went through JSON: the schema is back, the API map is nil.
C25_Witness ==
    /\ obj.pc = "decoded"
    /\ obj.info.Git.Tag = <<"v", "1">> /\ obj.decoded.Git.Tag = <<"v", "1">>
    /\ obj.decoded.schemas = [db |-> <<"4", "7">>]
    /\ "apis" \in obj.made /\ ~Got(obj.info, obj.made, "GetAPIs").nil
    /\ Got(obj.decoded, obj.decodedMade, "GetAPIs").nil

(***************************************************************************)
(* The HTTP handlers on top of the singleton.  web[t] is the request       *)
(* goroutine t is serving, or served last: the handler, the method, the    *)
(* status, body and headers written so far, and how often the wrapped      *)
(* handler has been called.  A handler calls Get, whose steps are those of *)
(* the singleton.                                                          *)
(***************************************************************************)
\* info, err := Get(), up to the fast path's load of instance.
HandlerGet(t) ==
    /\ web[t].phase = "done"
    /\ Enter(t, "Get", GetOptions, IF LoadInstance # 0 THEN "idle" ELSE "do_check")
    /\ ret' = [ret EXCEPT ![t] = IF LoadInstance # 0
                                 THEN GetResult("Get", LoadInstance, NoError) ELSE NoRet]
    /\ didRun' = [didRun EXCEPT ![t] = FALSE]
    /\ UNCHANGED <<run, obj, sem, env, instance, initOnce, initError, resetMu, heap, info,
                   bodyRuns, initBy, epoch>>

\* HealthHandler: the method check, and the call of Get.
HealthBegin(t) ==
    \E method \in {"GET", "POST"} :
       IF method # "GET"
       THEN /\ pc[t] = "idle" /\ web[t].phase = "done"
            /\ web' = [web EXCEPT ![t] = [NoRequest EXCEPT !.handler = "Health",
                                             !.method = method, !.status = 405,
                                             !.body = [error |-> "Method not allowed"]]]
            /\ UNCHANGED <<svars, run, obj, sem, env>>
       ELSE /\ HandlerGet(t)
            /\ web' = [web EXCEPT ![t] = [NoRequest EXCEPT !.handler = "Health",
                                             !.method = method, !.phase = "get"]]

\* A health handler that always answers 200.
HealthStatusAlwaysOK(err) == 200

\* The status HealthHandler writes: StatusServiceUnavailable if Get
\* returned an error, else StatusOK.
HealthStatus(err) == IF err # NoError THEN 503 ELSE 200

\* HealthHandler after Get: the header, the status and the JSON body.
HealthRespond(t) ==
    /\ web[t].handler = "Health" /\ web[t].phase = "get"
    /\ pc[t] = "idle" /\ ret[t].done
    /\ web' = [web EXCEPT
                 ![t].phase = "done",
                 ![t].headers = [k \in {"Content-Type"} |-> "application/json"],
                 ![t].status = HealthStatus(ret[t].err),
                 ![t].body = IF ret[t].err # NoError
                             THEN [status |-> <<"error">>, error |-> <<"version not available">>]
                             ELSE [status |-> <<"ok">>,
                                   version |-> heap[ret[t].info].Project.Version]]
    /\ UNCHANGED <<svars, run, obj, sem, env>>

\* Middleware: the call of Get.
MiddlewareBegin(t) ==
    \E method \in {"GET", "POST"} :
       /\ HandlerGet(t)
       /\ web' = [web EXCEPT ![t] = [NoRequest EXCEPT !.handler = "Middleware",
                                        !.method = method, !.phase = "get"]]

\* A middleware that sets the commit header whatever the commit is.
CommitHeaderAlways(i) == [k \in {"X-Git-Commit"} |-> i.Git.Commit]

\* if info.Git.Commit != DefaultGitCommit { w.Header().Set(HTTPHeaderGitCommit, ...) }
CommitHeader(i) ==
    IF i.Git.Commit # DefaultGitCommit THEN [k \in {"X-Git-Commit"} |-> i.Git.Commit] ELSE <<>>

\* Middleware after Get: the headers if Get returned an Info, then
\* next.ServeHTTP(w, r), where the wrapped handler answers 200.
MiddlewareRespond(t) ==
    /\ web[t].handler = "Middleware" /\ web[t].phase = "get"
    /\ pc[t] = "idle" /\ ret[t].done
    /\ web' = [web EXCEPT
                 ![t].phase = "done",
                 ![t].headers = IF ret[t].err = NoError
                                THEN [k \in {"X-App-Version"} |->
                                         heap[ret[t].info].Project.Version]
                                     @@ CommitHeader(heap[ret[t].info])
                                ELSE <<>>,
                 ![t].served = @ + 1,
                 ![t].status = 200]
    /\ UNCHANGED <<svars, run, obj, sem, env>>

InitHTTP ==
    /\ env \in WebEnvs
    /\ InitSingleton
    /\ run = NoRun
    /\ obj = NoObj
    /\ sem = NoSem
    /\ web = NoWeb

\* The requests, an Initialize by a goroutine that is not serving one, and
\* the steps of the singleton.
NextHTTP ==
    \E t \in Threads :
        \/ web[t].phase = "done" /\ InitializeBegin(t)
        \/ HealthBegin(t)
        \/ MiddlewareBegin(t)
        \/ OnceCheck(t)
        \/ OnceLock(t)
        \/ OnceBody(t)
        \/ OnceStore(t)
        \/ OnceDone(t)
        \/ OnceUnlock(t)
        \/ InitializeReturn(t)
        \/ GetErr(t)
        \/ GetLoad(t)
        \/ HealthRespond(t)
        \/ MiddlewareRespond(t)

SpecHTTP == InitHTTP /\ [][NextHTTP]_vars

\* Goroutine t's handler writes its response in this step.
Responds(t, handler) ==
    /\ web[t].handler = handler /\ web[t].phase = "get"
    /\ web'[t].phase = "done"

\* C26: the health handler answers a GET with 200, status ok and the
\* project version of the singleton's Info exactly when its Get returned
\* the Info (the published instance; always so when the singleton is
\* Ready), and with 503, status error and a fixed message exactly when Get
\* returned an error, which is exactly when the singleton is Failed.  It
\* never panics, and leaves the singleton as it is.
C26_HealthReflectsSingleton ==
    [][\A t \in Threads :
          Responds(t, "Health")
             => /\ web[t].method = "GET"
                /\ ~ret[t].panicked
                /\ web'[t].status \in {200, 503}
                /\ web'[t].status = 200 <=> ret[t].err = NoError
                /\ State = "Ready" => web'[t].status = 200
                /\ web'[t].status = 503 <=> State = "Failed"
                /\ web'[t].status = 200
                     => /\ LoadInstance # 0 /\ initError = NoError
                        /\ ret[t].info = instance.ptr
                        /\ web'[t].body = [status |-> <<"ok">>,
                                           version |-> heap[instance.ptr].Project.Version]
                /\ web'[t].status = 503
                     => /\ ret[t].err = initError
                        /\ web'[t].body.status = <<"error">>
                        /\ DOMAIN web'[t].body = {"status", "error"}
                /\ UNCHANGED svars]_vars

\* One goroutine's Initialize failed and the other's health request was
\* answered with 503.
C26_Witness ==
    \E t, u \in Threads :
       /\ t # u
       /\ Returned(u, {"Initialize"}) /\ ret[u].didRun /\ ret[u].err # NoError
       /\ web[t].handler = "Health" /\ web[t].method = "GET" /\ web[t].phase = "done"
       /\ web[t].status = 503
       /\ web[t].body.status = <<"error">>

GitTreeStateClean == "clean"

\* C31: a loaded Info has tree state GitTreeStateClean or GitTreeStateDirty.
C31_TreeStateCleanOrDirty ==
    Loaded => run.info.Git.TreeState \in {GitTreeStateClean, GitTreeStateDirty}

(***************************************************************************)
(* C32: the output of git rev-parse HEAD reaches Info.Git.Commit only as a *)
(* string of 7 to 40 hexadecimal characters.                               *)
(***************************************************************************)
\* s is 7 to 40 characters, each of them a hexadecimal digit.
LooksLikeHash(s) ==
    /\ Len(s) \in 7..40
    /\ \A i \in 1..Len(s) :
          s[i] \in {"0", "1", "2", "3", "4", "5", "6", "7", "8", "9",
                    "a", "b", "c", "d", "e", "f", "A", "B", "C", "D", "E", "F"}

\* C32: the git command step changes the commit only to the output of git
\* rev-parse HEAD with the surrounding white space trimmed, and only if that
\* is 7 to 40 hexadecimal characters; on any other output the commit keeps
\* the value it had before the step.
C32_CommitFromGitIsHash ==
    [][run.pc = "gitcommand" =>
          /\ run'.info.Git.Commit # run.info.Git.Commit =>
                /\ run'.info.Git.Commit = TrimSpace(env.revParse.out)
                /\ LooksLikeHash(TrimSpace(env.revParse.out))
          /\ ~LooksLikeHash(TrimSpace(env.revParse.out)) =>
                run'.info.Git.Commit = run.info.Git.Commit]_vars

\* The git command ran, printed a hash of mixed case between white space,
\* and the trimmed hash became the commit.
C32_Witness ==
    /\ run.pc \in {"build", "validate"}
    /\ run.execs # <<>>
    /\ env.revParse.out # TrimSpace(env.revParse.out)
    /\ Head(env.revParse.out) = " "
    /\ run.info.Git.Commit = TrimSpace(env.revParse.out)

(***************************************************************************)
(* C33: which git binary the fallback executes.                            *)
(***************************************************************************)
AllowList == {"/usr/bin/git", "/usr/local/bin/git", "/opt/homebrew/bin/git"}

\* The git command step executed nothing, left the Info alone and went on
\* to the next pass without an error.
FallbackSkipped ==
    /\ run'.execs = <<>>
    /\ run'.info = run.info
    /\ run'.err = NoError
    /\ run'.pc \in {"build", "validate"}

\* C33 as claimed: on every platform the step executes only a binary on the
\* allow-list, and for any other resolved path it executes nothing, changes
\* nothing and does not fail.
C33_AllowListOnEveryPlatform ==
    [][run.pc = "gitcommand" =>
          /\ \A i \in 1..Len(run'.execs) : run'.execs[i].path \in AllowList
          /\ env.lookPath.path \notin AllowList => FallbackSkipped]_vars

\* C33: where runtime.GOOS is not windows the step executes only a binary on
\* the allow-list, and for any other resolved path it executes nothing,
\* changes nothing and does not fail; on windows it executes the path
\* exec.LookPath resolved, whatever it is, and is skipped only when git is
\* not found.
C33_AllowListExceptOnWindows ==
    [][run.pc = "gitcommand" =>
          /\ \A i \in 1..Len(run'.execs) : run'.execs[i].path = env.lookPath.path
          /\ env.goos # "windows" =>
                /\ \A i \in 1..Len(run'.execs) : run'.execs[i].path \in AllowList
                /\ env.lookPath.path \notin AllowList => FallbackSkipped
          /\ env.goos = "windows" =>
                /\ ~env.lookPath.ok => FallbackSkipped
                /\ env.lookPath.ok /\ run.info.Git.Commit = DefaultGitCommit =>
                      /\ run'.execs # <<>>
                      /\ run'.execs[1].path = env.lookPath.path
          /\ run'.err = NoError]_vars

\* On a Mac whose PATH resolves git to a directory of the user, with nothing
\* injected and no build info, the step ran and the fallback was skipped.
C33_Witness ==
    /\ run.pc \in {"build", "validate"}
    /\ run.options.includeGit
    /\ env.goos = "darwin"
    /\ env.lookPath.ok
    /\ env.lookPath.path \notin AllowList
    /\ env.revParse.ok
    /\ run.execs = <<>>
    /\ run.info.Git.Commit = DefaultGitCommit
    /\ run.info.Git.Tag = <<>>

(***************************************************************************)
(* C34: the build fields of a loaded Info.                                 *)
(***************************************************************************)
\* The field holds the injected value if that differs from the sentinel and
\* the sentinel otherwise.
InjectedOrDefault(field, injected, sentinel) ==
    IF injected # sentinel THEN field = injected ELSE field = sentinel

\* C34 as claimed: every loaded Info has the runtime's version, and its
\* build time and user are the injected values wherever those differ from
\* the sentinels.
C34_BuildFieldsAlwaysInjected ==
    Loaded =>
        /\ run.info.Build.GoVersion = env.goVersion
        /\ InjectedOrDefault(run.info.Build.Time, env.BuildTime, "unknown")
        /\ InjectedOrDefault(run.info.Build.User, env.BuildUser, "")

\* C34: every loaded Info has the runtime's version, with the build pass or
\* without it; with the build pass its build time and user are the injected
\* values wherever those differ from the sentinels; without the build pass
\* they are the sentinels whatever was injected.
C34_BuildFields ==
    Loaded =>
        /\ run.info.Build.GoVersion = env.goVersion
        /\ run.options.includeBuild =>
              /\ InjectedOrDefault(run.info.Build.Time, env.BuildTime, "unknown")
              /\ InjectedOrDefault(run.info.Build.User, env.BuildUser, "")
        /\ ~run.options.includeBuild =>
              /\ run.info.Build.Time = "unknown"
              /\ run.info.Build.User = ""

\* A load with the build pass, a build time and a user injected: the Info
\* carries both and the version of the runtime.
C34_Witness ==
    /\ Loaded
    /\ run.options.includeBuild
    /\ env.BuildTime = "2025-10-11T15:00:00Z"
    /\ env.BuildUser = "testuser"
    /\ run.info.Build = [Time |-> "2025-10-11T15:00:00Z", User |-> "testuser",
                         GoVersion |-> "go1.25.0"]

(***************************************************************************)
(* C35: IsInitialized only looks.                                          *)
(***************************************************************************)
\* Goroutine t calls IsInitialized in this step.
CallsIsInitialized(t) == Enters(t) /\ call'[t].op = "IsInitialized"

\* C35: a call of IsInitialized changes none of instance, initOnce and
\* initError, allocates nothing and runs no pipeline; it returns true exactly
\* when a non-nil *Info is stored, which is then the Info of a load that
\* succeeded; on the uninitialized singleton it returns false; and an
\* Initialize with good custom options that starts on the uninitialized
\* singleton with no other call in flight, IsInitialized calls having gone
\* before or not, runs the pipeline and returns nil.
C35_IsInitializedOnlyLooks ==
    [][\A t \in Threads :
          /\ CallsIsInitialized(t) =>
                /\ UNCHANGED <<instance, initOnce, initError, resetMu, heap, bodyRuns, initBy>>
                /\ pc'[t] = "idle"
                /\ ret'[t].done
                /\ ret'[t].ok <=> (instance.stored /\ instance.ptr # 0)
                /\ ret'[t].ok => /\ instance.ptr \in 1..Len(heap)
                                 /\ initError = NoError
                                 /\ bodyRuns = 1
                /\ State = "Uninitialized" => ~ret'[t].ok
                /\ State = "Failed" => ~ret'[t].ok
          /\ (/\ Returns(t)
              /\ ~Enters(t)
              /\ call[t].op = "Initialize"
              /\ call[t].state = "Uninitialized"
              /\ Alone(t)
              /\ call[t].options \in {OptTestApp, OptNewApp}) =>
                /\ ret'[t].didRun
                /\ ret'[t].err = NoError
                /\ instance.stored /\ instance.ptr # 0]_vars

\* Two calls of IsInitialized on the fresh singleton, the second of them
\* returning false, and then an Initialize with custom options that ran the
\* pipeline and returned nil.
C35_Witness ==
    /\ calls = 3
    /\ epoch = 0
    /\ call[2].op = "IsInitialized" /\ call[2].seq = 2 /\ call[2].state = "Uninitialized"
    /\ ret[2].done /\ ~ret[2].ok
    /\ call[1].op = "Initialize" /\ call[1].seq = 3 /\ call[1].state = "Uninitialized"
    /\ call[1].options = OptTestApp
    /\ ret[1].done /\ ret[1].didRun /\ ret[1].err = NoError
    /\ bodyRuns = 1
    /\ LoadInstance # 0

(***************************************************************************)
(* C36: printing what Parse made of a canonical string.                    *)
(***************************************************************************)
\* seg is a number written without a leading zero.
NoLeadingZero(seg) == IsNumber(seg) /\ (Len(seg) = 1 \/ seg[1] # "0")

\* s is MAJOR.MINOR.PATCH with all three numbers present and none with a
\* leading zero, then an optional non-empty -PRERELEASE, then an optional
\* non-empty +BUILD.
Canonical(s) ==
    LET core == CoreOf(s)
        segs == Split(core, ".")
        rest == SubSeq(s, Len(core) + 1, Len(s))
        plus == IndexByte(rest, "+")
    IN /\ Len(segs) = 3
       /\ \A i \in 1..Len(segs) : NoLeadingZero(segs[i])
       /\ (rest # <<>> /\ rest[1] = "-") => (IF plus = 0 THEN Len(rest) > 1 ELSE plus > 2)
       /\ plus # 0 => plus < Len(rest)

\* Every number of the core of s fits an int.
NumbersFit(s) == \A i \in 1..Len(Segments(s)) : FitsInt(Segments(s)[i])

\* C36 as claimed: every canonical string, with a v before it or without,
\* parses, and the parsed version prints as the string without the v.
C36_CanonicalPrintsAsWritten ==
    (sem.pc # "none" /\ Canonical(AfterV(sem.a))) =>
        /\ sem.pc # "start" => sem.va.ok
        /\ sem.pc = "printed" => sem.str = AfterV(sem.a)

\* C36: a canonical string whose three numbers each fit an int parses, with
\* a v before it or without, and the parsed version prints as the string
\* without the v; a canonical string with a number above the largest int
\* does not parse, so there is nothing to print.
C36_CanonicalRoundTrip ==
    (sem.pc # "none" /\ Canonical(AfterV(sem.a))) =>
        /\ sem.pc # "start" => (sem.va.ok <=> NumbersFit(sem.a))
        /\ sem.pc = "printed" => sem.str = AfterV(sem.a)
        /\ (sem.pc # "start" /\ NumbersFit(sem.a)) => VersionString(sem.va) = AfterV(sem.a)

\* v2147483647.10.7-a-b+a+b was parsed and printed without its v.
C36_Witness ==
    /\ sem.pc = "printed"
    /\ Canonical(AfterV(sem.a))
    /\ Head(sem.a) = "v"
    /\ sem.va.Major = 2147483647 /\ sem.va.Minor = 10 /\ sem.va.Patch = 7
    /\ sem.va.Prerelease = <<"a", "-", "b">>
    /\ sem.va.Build = <<"a", "+", "b">>
    /\ sem.str = Tail(sem.a)

(***************************************************************************)
(* C40: Compare as an order.                                               *)
(***************************************************************************)
\* The versions the strings of the model parse to.
ParsedVersions == {Parse(s) : s \in {x \in SemverStrings : Parse(x).ok}}

\* The fields Compare looks at are the same in v and w.
SamePrecedence(v, w) == SameCore(v, w) /\ v.Prerelease = w.Prerelease

\* C40: for the versions a and b that were compared and every version c:
\* Compare(a, b) = -Compare(b, a); Compare(a, b) <= 0 and Compare(b, c) <= 0
\* imply Compare(a, c) <= 0; Compare(a, b) = 0 exactly when major, minor,
\* patch and prerelease are equal; and LessThan, GreaterThan, Equal,
\* GreaterThanOrEqual and LessThanOrEqual are the signs of Compare(a, b).
C40_CompareIsTotalPreorder ==
    sem.pc = "compared" =>
        /\ sem.cmp \in {-1, 0, 1}
        /\ Compare(sem.vb, sem.va) = 0 - sem.cmp
        /\ Compare(sem.va, sem.va) = 0
        /\ \A c \in ParsedVersions :
              /\ (sem.cmp <= 0 /\ Compare(sem.vb, c) <= 0) => Compare(sem.va, c) <= 0
              /\ (Compare(c, sem.va) <= 0 /\ sem.cmp <= 0) => Compare(c, sem.vb) <= 0
        /\ sem.cmp = 0 <=> SamePrecedence(sem.va, sem.vb)
        /\ sem.is.LessThan <=> sem.cmp < 0
        /\ sem.is.GreaterThan <=> sem.cmp > 0
        /\ sem.is.Equal <=> sem.cmp = 0
        /\ sem.is.GreaterThanOrEqual <=> sem.cmp >= 0
        /\ sem.is.LessThanOrEqual <=> sem.cmp <= 0

\* 1.2.3+build was compared with 1.2.3: they differ as structs, Compare is
\* 0 both ways, Equal, GreaterThanOrEqual and LessThanOrEqual hold and
\* LessThan and GreaterThan do not.
C40_Witness ==
    /\ sem.pc = "compared"
    /\ sem.va # sem.vb
    /\ sem.va.Build # <<>> /\ sem.vb.Build = <<>>
    /\ sem.cmp = 0
    /\ sem.is = [LessThan |-> FALSE, GreaterThan |-> FALSE, Equal |-> TRUE,
                 GreaterThanOrEqual |-> TRUE, LessThanOrEqual |-> TRUE]

(***************************************************************************)
(* The singleton with Reset called while other goroutines are inside the   *)
(* package.  Reset takes resetMu; Initialize and Get do not, so the writes  *)
(* of Reset race with the once of an Initialize or Get in flight.  The      *)
(* assignment initOnce = sync.Once{} is a plain store of a struct other     *)
(* goroutines access atomically: its two words (done, and the mutex) may    *)
(* land together or one after the other, in either order.  Get's            *)
(* `if initError != nil { return nil, initError }` reads the variable       *)
(* twice.  Unlocking a mutex that is not locked is a fatal error of the     *)
(* runtime: the process dies.                                               *)
(***************************************************************************)
RaceOptions == {OptTestApp, OptInvalidYAML}

Fatal == \E t \in Threads : pc[t] = "fatal"

\* Goroutine t starts a call, whatever the other goroutines are doing.
EnterAnyTime(t, op, options, next) ==
    /\ pc[t] = "idle"
    /\ calls < MaxCalls
    /\ calls = 0 => t = 1
    /\ calls' = calls + 1
    /\ call' = [call EXCEPT ![t] =
                    [op |-> op, options |-> options, state |-> State, snap |-> Snapshot,
                     seq |-> calls + 1, alone |-> \A u \in Threads \ {t} : pc[u] = "idle"]]
    /\ pc' = [pc EXCEPT ![t] = next]

\* Initialize, begun at any time.
RaceInitializeBegin(t) ==
    /\ \E options \in RaceOptions :
          EnterAnyTime(t, "Initialize", options, IF initOnce.done THEN "init_ret" ELSE "do_lock")
    /\ didRun' = [didRun EXCEPT ![t] = FALSE]
    /\ ret' = [ret EXCEPT ![t] = NoRet]
    /\ UNCHANGED <<run, obj, sem, web, env, instance, initOnce, initError, resetMu, heap, info,
                   bodyRuns, initBy, epoch>>

\* Get, begun at any time: the fast path.
RaceGetBegin(t) ==
    /\ EnterAnyTime(t, "Get", GetOptions, IF LoadInstance # 0 THEN "idle" ELSE "do_check")
    /\ ret' = [ret EXCEPT ![t] = IF LoadInstance # 0
                                 THEN GetResult("Get", LoadInstance, NoError) ELSE NoRet]
    /\ didRun' = [didRun EXCEPT ![t] = FALSE]
    /\ UNCHANGED <<run, obj, sem, web, env, instance, initOnce, initError, resetMu, heap, info,
                   bodyRuns, initBy, epoch>>

\* Reset in a test binary, begun at any time: resetMu.Lock().
RaceResetBegin(t) ==
    /\ Testing
    /\ resetMu = 0
    /\ EnterAnyTime(t, "Reset", defaultLoadOptions, "reset_store")
    /\ resetMu' = t
    /\ epoch' = epoch + 1
    /\ ret' = [ret EXCEPT ![t] = NoRet]
    /\ UNCHANGED <<run, obj, sem, web, env, instance, initOnce, initError, heap, didRun, info,
                   bodyRuns, initBy>>

\* initOnce = sync.Once{}: both words at once, or one of them first.
RaceResetOnce(t) ==
    /\ pc[t] = "reset_once"
    /\ \E first \in {"both", "done", "m"} :
          /\ initOnce' = CASE first = "both" -> FreshOnce
                           [] first = "done" -> [initOnce EXCEPT !.done = FALSE]
                           [] first = "m" -> [initOnce EXCEPT !.m = 0]
          /\ pc' = [pc EXCEPT ![t] = CASE first = "both" -> "reset_err"
                                       [] first = "done" -> "reset_once_m"
                                       [] first = "m" -> "reset_once_done"]
    /\ bodyRuns' = 0
    /\ initBy' = "none"
    /\ UNCHANGED <<run, obj, sem, web, env, instance, initError, resetMu, heap, call, didRun, info,
                   ret, calls, epoch>>

\* initOnce = sync.Once{}: the word that was not yet written.
RaceResetOnceRest(t) ==
    /\ pc[t] \in {"reset_once_m", "reset_once_done"}
    /\ initOnce' = IF pc[t] = "reset_once_m" THEN [initOnce EXCEPT !.m = 0]
                   ELSE [initOnce EXCEPT !.done = FALSE]
    /\ pc' = [pc EXCEPT ![t] = "reset_err"]
    /\ UNCHANGED <<run, obj, sem, web, env, instance, initError, resetMu, heap, call, didRun, info,
                   ret, calls, bodyRuns, initBy, epoch>>

\* defer o.m.Unlock(): fatal when the mutex is not locked.
RaceOnceUnlock(t) ==
    /\ pc[t] = "do_unlock"
    /\ IF initOnce.m = 0
       THEN /\ pc' = [pc EXCEPT ![t] = "fatal"]
            /\ initOnce' = initOnce
       ELSE /\ pc' = [pc EXCEPT ![t] = AfterDo(t)]
            /\ initOnce' = [initOnce EXCEPT !.m = 0]
    /\ UNCHANGED <<run, obj, sem, web, env, instance, initError, resetMu, heap, call, didRun, info,
                   ret, calls, bodyRuns, initBy, epoch>>

\* Get, after Do: if initError != nil
RaceGetErrCheck(t) ==
    /\ pc[t] = "get_err"
    /\ pc' = [pc EXCEPT ![t] = IF initError # NoError THEN "get_err_ret" ELSE "get_load"]
    /\ UNCHANGED <<run, obj, sem, web, env, instance, initOnce, initError, resetMu, heap, call,
                   didRun, info, ret, calls, bodyRuns, initBy, epoch>>

\* Get, after Do: return nil, initError
RaceGetErrReturn(t) ==
    /\ pc[t] = "get_err_ret"
    /\ Return(t, GetResult(call[t].op, 0, initError))
    /\ UNCHANGED <<run, obj, sem, web, env, instance, initOnce, initError, resetMu, heap, call,
                   calls, bodyRuns, initBy, epoch>>

InitRace ==
    /\ env = BaseEnv
    /\ InitSingleton
    /\ run = NoRun
    /\ obj = NoObj
    /\ sem = NoSem
    /\ web = NoWeb

NextRace ==
    /\ ~Fatal
    /\ \E t \in Threads :
          \/ RaceInitializeBegin(t)
          \/ RaceGetBegin(t)
          \/ OnceCheck(t)
          \/ OnceLock(t)
          \/ OnceBody(t)
          \/ OnceStore(t)
          \/ OnceDone(t)
          \/ RaceOnceUnlock(t)
          \/ InitializeReturn(t)
          \/ RaceGetErrCheck(t)
          \/ RaceGetErrReturn(t)
          \/ GetLoad(t)
          \/ RaceResetBegin(t)
          \/ ResetStore(t)
          \/ RaceResetOnce(t)
          \/ RaceResetOnceRest(t)
          \/ ResetErr(t)

SpecRace == InitRace /\ [][NextRace]_vars

(***************************************************************************)
(* C37.  Consistency of the stored instance, the stored error and the      *)
(* run-once guard.                                                         *)
(***************************************************************************)
\* The guard is consumed, or is being consumed by the goroutine that holds
\* its mutex and has left the body: a further Initialize runs nothing.
GuardConsumed ==
    \/ initOnce.done
    \/ \E t \in Threads : initOnce.m = t /\ pc[t] = "do_done"

\* Goroutine t is inside the slow path of Do, between Lock and Unlock.
InOnce(t) == pc[t] \in {"do_body", "do_store", "do_done", "do_unlock"}

\* While no Reset is running: an instance or an error is stored only under
\* a consumed guard, never both, a consumed guard has an outcome, the body
\* ran at most once since the last Reset, and whoever is inside the once
\* holds its mutex and, past the body, has the outcome in place.
Consistent ==
    resetMu = 0 =>
        /\ LoadInstance # 0 => GuardConsumed
        /\ initError # NoError => GuardConsumed
        /\ ~(LoadInstance # 0 /\ initError # NoError)
        /\ initOnce.done => (LoadInstance # 0 \/ initError # NoError)
        /\ bodyRuns <= 1
        /\ bodyRuns = 1 => (initOnce.done \/ \E t \in Threads : InOnce(t) /\ pc[t] # "do_body")
        /\ \A t \in Threads :
              /\ pc[t] = "do_body" => bodyRuns = 0
              /\ InOnce(t) => initOnce.m = t
              /\ pc[t] = "do_store" => initError = NoError /\ info[t] # 0
              /\ pc[t] = "do_done" => (LoadInstance # 0 \/ initError # NoError)
              /\ pc[t] = "do_unlock" => initOnce.done

\* The Reset of goroutine t has exclusive access: nobody was inside the
\* package when it began, and nobody has entered since.
Exclusive(t) ==
    /\ call[t].alone
    /\ \A u \in Threads \ {t} : call[u].seq < call[t].seq

\* Goroutine t takes a step of Reset.
ResetSteps(t) == pc[t] \in {"reset_store", "reset_once", "reset_once_m", "reset_once_done", "reset_err"}
                 /\ pc'[t] # pc[t]

HazardNames == {"panics", "callsGet", "callsMustGet", "callsInitialize"}

\* func(ctx, info) error { panic(...) }, { _, err := version.Get(); return err },
\* { version.MustGet(); return nil }, { return version.Initialize() }
HazardValidator(name) == [dimensionType |-> "func", name |-> name]

\* Initialize is called with a good manifest and one such validator, with a
\* good manifest alone, or with bytes that do not parse.
HazardOptions ==
    {WithValidators(OptNewApp, <<HazardValidator(n)>>) : n \in HazardNames}
    \cup {OptNewApp, OptInvalidYAML}

\* The validator of the option list that does more than look, if any (the
\* last of the list).
Hazard(options) ==
    IF /\ options.validators # <<>>
       /\ options.validators[Len(options.validators)].dimensionType = "func"
       /\ options.validators[Len(options.validators)].name \in HazardNames
    THEN options.validators[Len(options.validators)].name
    ELSE "none"

\* The option list without that validator.
BeforeHazard(options) ==
    IF Hazard(options) = "none" THEN options
    ELSE [options EXCEPT !.validators = SubSeq(@, 1, Len(@) - 1)]

\* Initialize: didRun := false; initOnce.Do's first load of done.
HazardInitializeBegin(t) ==
    /\ \E options \in HazardOptions :
          Enter(t, "Initialize", options, IF initOnce.done THEN "init_ret" ELSE "do_lock")
    /\ didRun' = [didRun EXCEPT ![t] = FALSE]
    /\ ret' = [ret EXCEPT ![t] = NoRet]
    /\ UNCHANGED <<run, obj, sem, web, env, instance, initOnce, initError, resetMu, heap, info,
                   bodyRuns, initBy, epoch>>

\* The function passed to Do, up to the call of the validator that does
\* more than look; without one, up to the assignment of initError.
HazardOnceBody(t) ==
    /\ pc[t] = "do_body"
    /\ LET r == Loads[BeforeHazard(call[t].options), env, calls]
       IN IF r.err # NoError
          THEN /\ initError' = r.err
               /\ heap' = heap
               /\ info' = [info EXCEPT ![t] = 0]
               /\ pc' = [pc EXCEPT ![t] = "do_done"]
          ELSE /\ heap' = Append(heap, r.info)
               /\ info' = [info EXCEPT ![t] = Len(heap) + 1]
               /\ IF Hazard(call[t].options) = "none"
                  THEN /\ initError' = r.err
                       /\ pc' = [pc EXCEPT ![t] = "do_store"]
                  ELSE /\ initError' = initError
                       /\ pc' = [pc EXCEPT ![t] = "v_call"]
    /\ didRun' = [didRun EXCEPT ![t] = (call[t].op = "Initialize")]
    /\ bodyRuns' = bodyRuns + 1
    /\ initBy' = call[t].op
    /\ UNCHANGED <<run, obj, sem, web, env, instance, initOnce, resetMu, call, ret, calls, epoch>>

\* What the Get called by a validator returns without entering the once's
\* slow path.
NestedGetErr ==
    IF LoadInstance # 0 THEN NoError
    ELSE IF initError # NoError THEN initError
    ELSE ErrNotInitialized

\* validator.Validate(ctx, info) for the validator that does more than look.
\* It panics; or it calls into the package, and the call returns at once
\* (fast path of Get, or a once that is done) or goes on to o.m.Lock().
ValidatorRuns(t) ==
    /\ pc[t] = "v_call"
    /\ LET hz == Hazard(call[t].options)
           viaGet == hz \in {"callsGet", "callsMustGet"}
           atOnce == initOnce.done \/ (viaGet /\ LoadInstance # 0)
           err == IF viaGet THEN NestedGetErr ELSE ErrInitializeMultiple
       IN IF hz = "panics" \/ (atOnce /\ hz = "callsMustGet" /\ err # NoError)
          THEN /\ pc' = [pc EXCEPT ![t] = "panic_done"]
               /\ UNCHANGED <<initError, info>>
          ELSE IF ~atOnce
          THEN /\ pc' = [pc EXCEPT ![t] = "do_lock"]
               /\ UNCHANGED <<initError, info>>
          ELSE IF err = NoError
          THEN /\ pc' = [pc EXCEPT ![t] = "do_store"]
               /\ initError' = NoError
               /\ info' = info
          ELSE /\ pc' = [pc EXCEPT ![t] = "do_done"]
               /\ initError' = wrapError(err, "validation", "validation failed")
               /\ info' = [info EXCEPT ![t] = 0]
    /\ UNCHANGED <<run, obj, sem, web, env, instance, initOnce, resetMu, heap, call, didRun, ret,
                   calls, bodyRuns, initBy, epoch>>

\* The panic unwinds doSlow: defer o.done.Store(1)
PanicDone(t) ==
    /\ pc[t] = "panic_done"
    /\ initOnce' = [initOnce EXCEPT !.done = TRUE]
    /\ pc' = [pc EXCEPT ![t] = "panic_unlock"]
    /\ UNCHANGED <<run, obj, sem, web, env, instance, initError, resetMu, heap, call, didRun, info,
                   ret, calls, bodyRuns, initBy, epoch>>

\* The panic unwinds doSlow: defer o.m.Unlock(); then it leaves Initialize,
\* whose caller recovers it.
PanicUnlock(t) ==
    /\ pc[t] = "panic_unlock"
    /\ initOnce' = [initOnce EXCEPT !.m = 0]
    /\ Return(t, [Result(0, NoError) EXCEPT !.panicked = TRUE])
    /\ UNCHANGED <<run, obj, sem, web, env, instance, initError, resetMu, heap, call, calls,
                   bodyRuns, initBy, epoch>>

InitHazard ==
    /\ env = BaseEnv
    /\ InitSingleton
    /\ run = NoRun
    /\ obj = NoObj
    /\ sem = NoSem
    /\ web = NoWeb

\* A step of the call goroutine t is in.
Continue(t) ==
    \/ OnceCheck(t)
    \/ OnceLock(t)
    \/ HazardOnceBody(t)
    \/ ValidatorRuns(t)
    \/ OnceStore(t)
    \/ OnceDone(t)
    \/ OnceUnlock(t)
    \/ PanicDone(t)
    \/ PanicUnlock(t)
    \/ InitializeReturn(t)
    \/ GetErr(t)
    \/ GetLoad(t)
    \/ ResetStore(t)
    \/ ResetOnce(t)
    \/ ResetErr(t)

NextHazard ==
    \E t \in Threads :
        \/ HazardInitializeBegin(t)
        \/ GetBegin(t)
        \/ ResetBegin(t)
        \/ Continue(t)

SpecHazard == InitHazard /\ [][NextHazard]_vars

\* The scheduler runs every goroutine that can run.
SpecHazardFair == SpecHazard /\ \A t \in Threads : WF_vars(Continue(t))

(***************************************************************************)
(* C38.  Termination of Initialize and Get.                                *)
(***************************************************************************)
\* Goroutine t waits in o.m.Lock() for the mutex it holds itself.
WaitsForItself(t) == pc[t] = "do_lock" /\ initOnce.m = t

\* C38: every call of Initialize, Get or MustGet (and Reset) that has begun
\* returns, also when a validator of the Initialize calls Get, MustGet or
\* Initialize on the singleton being initialized: under a scheduler that
\* runs every goroutine that can run, a goroutine inside a call is
\* eventually outside it.
C38_CallsTerminate == \A t \in Threads : (pc[t] # "idle") ~> (pc[t] = "idle")

(***************************************************************************)
(* C39.  What Get returns.                                                 *)
(***************************************************************************)
\* C39: in every state of the singleton, a Get that has returned (directly
\* or to MustGet) has returned exactly one of a non-nil Info and a non-nil
\* error: never (nil, nil) and never both.
C39_GetReturnsInfoOrError ==
    \A t \in Threads :
        call[t].op \in {"Get", "MustGet"} /\ ret[t].done =>
            (ret[t].info # 0) # (ret[t].err # NoError)

\* An Initialize was aborted by the panic of its validator, and a Get begun
\* afterwards, with the once done and neither an instance nor an error
\* stored, has returned (nil, ErrNotInitialized).
C39_Witness ==
    \E t, u \in Threads :
        /\ call[u].op = "Initialize" /\ ret[u].done /\ ret[u].panicked
        /\ Hazard(call[u].options) = "panics"
        /\ call[t].op = "Get" /\ call[t].seq > call[u].seq /\ call[t].state = "Unpublished"
        /\ ret[t].done /\ ret[t].info = 0 /\ ret[t].err = ErrNotInitialized

====
